---- MODULE Spec2Model ----
(***************************************************************************)
(* Tracking/analytics store of open-lovable.                               *)
(*                                                                         *)
(*   lib/simple-database.ts  SimpleFileDatabase + trackWebsiteClone        *)
(*   lib/database.ts         DatabaseManager (SQLite) + trackWebsiteClone  *)
(*   data/schema.sql         SQLite schema (src/unnamed/part_002)          *)
(*                                                                         *)
(* Strings whose characters the code inspects (model identifiers and       *)
(* generated code) are sequences of one-character strings; strings that    *)
(* are only compared for equality (urls, status tags) are TLA+ strings.    *)
(* Node runs one callback at a time: an async method without an inner      *)
(* await runs to completion when it is called, and a caller's `await`      *)
(* is the only place where another caller's code can run in between.       *)
(***************************************************************************)
EXTENDS Integers, Sequences, FiniteSets, TLC

(***************************************************************************)
(* Bounds of the model.                                                    *)
(***************************************************************************)
MaxCalls == 2
MaxFaults == 1
MaxTime == 1
MaxTicks == 15
MaxAttempts == 4
MaxWrites == 3
MaxWebsites == 11

\* the concurrent requests that are inside trackWebsiteClone
Procs == {"request1", "request2"}

(***************************************************************************)
(* String literals of the source, as character sequences.                  *)
(***************************************************************************)
\* simple-database.ts:144  /export default function/g
Marker == <<"e","x","p","o","r","t"," ","d","e","f","a","u","l","t"," ","f","u","n","c","t","i","o","n">>

\* simple-database.ts:334  'unknown'
Unknown == <<"u","n","k","n","o","w","n">>

\* simple-database.ts:269  'ollama/llama3.2:7b'
ModelOllama == <<"o","l","l","a","m","a","/","l","l","a","m","a","3",".","2",":","7","b">>

\* simple-database.ts:284  'vllm/meta-llama/CodeLlama-7b-Instruct-hf'
ModelVllm == <<"v","l","l","m","/","m","e","t","a","-","l","l","a","m","a","/","C","o","d","e","L","l","a","m","a","-","7","b","-","I","n","s","t","r","u","c","t","-","h","f">>

\* a model identifier without a separator (spec.md section 8)
ModelCustom == <<"c","u","s","t","o","m","M","o","d","e","l">>

\* simple-database.ts:270 and :285
ProviderOllama == <<"o","l","l","a","m","a">>
ProviderVllm == <<"v","l","l","m">>

\* simple-database.ts:273/:287: the sample components, shortened to the part
\* the store looks at: some text, one marker, some text.
SampleCode1 == <<"i","m","p","o","r","t","\n">> \o Marker \o <<" ","A","p","p","1">>
SampleCode2 == <<"i","m","p","o","r","t","\n">> \o Marker \o <<" ","A","p","p","2">>

UrlStripe == "https://stripe.com"
UrlVercel == "https://vercel.com"
UrlOther == "https://example.com"

Undefined == "undefined"

(***************************************************************************)
(* Inputs the callers draw from.                                           *)
(***************************************************************************)
Urls == {UrlStripe, UrlOther}
Models == {ModelOllama, ModelCustom}
WebsiteIds == 1..2
\* what a caller of saveCloneAttempt passes: model_used, provider,
\* generated_code, status, generation_time_ms, code_size_bytes, component_count
AttemptInputs ==
    { [model_used |-> ModelOllama, provider |-> ProviderOllama,
       generated_code |-> Marker \o <<"(",")">> \o Marker, status |-> "success",
       generation_time_ms |-> 3000, code_size_bytes |-> 999, component_count |-> 7],
      [model_used |-> ModelCustom, provider |-> ProviderOllama,
       generated_code |-> <<>>, status |-> "error",
       generation_time_ms |-> 5000, code_size_bytes |-> 0, component_count |-> 0] }
\* what a caller of trackWebsiteClone passes besides the url
TrackInputs ==
    { [modelUsed |-> ModelOllama, generatedCode |-> Marker \o <<"(",")">> \o Marker,
       generationTimeMs |-> 3000, status |-> "success"],
      [modelUsed |-> ModelCustom, generatedCode |-> <<>>,
       generationTimeMs |-> 5000, status |-> "error"] }
FaultFlags == {FALSE, TRUE}
WriteOutcomes == {"ok", "unchanged", "corrupt"}

(***************************************************************************)
(* State.                                                                  *)
(***************************************************************************)
VARIABLES
    websitesFile,   \* data/websites.json: [ok, data]; ok = FALSE: not parsable
    attemptsFile,   \* data/clone_attempts.json
    now,            \* the clock new Date() reads, in ticks
    pc,             \* per caller: where its trackWebsiteClone is suspended
    loc,            \* per caller: the arguments and locals of that call
    ret,            \* the last call that returned: serial, op, args, id, error
    faults,         \* history: number of I/O faults so far
    callCount,      \* history: calls started, per operation
    issuedW,        \* history: (id, origin) of every Website identifier assigned
    issuedA,        \* history: (id, origin) of every CloneAttempt identifier assigned
    tracked,        \* history: (attempt id, url) of every trackWebsiteClone save
    sqlite,         \* data/open_lovable.db and whether this.sqliteDb is set
    obs,            \* the last call made on both backends: what each returned
    duck,           \* data/open_lovable_analytics.duckdb and this.duckDbConnection
    sync,           \* the syncToAnalytics call: where it is, and what it has read
    req,            \* the GET request of the analytics route that is being served
    client          \* history: what a caller has written, its last query and the answer

fileVars == <<websitesFile, attemptsFile>>
histVars == <<faults, issuedW, issuedA, tracked>>
sqlVars == <<sqlite, obs>>
duckVars == <<duck, sync>>

vars == <<websitesFile, attemptsFile, now, pc, loc, ret, faults, callCount,
          issuedW, issuedA, tracked, sqlite, obs, duck, sync, req, client>>

OpKinds == {"saveWebsite", "saveCloneAttempt", "importSampleData", "trackWebsiteClone",
            "getWebsiteByUrl", "getCloneAttemptsByModel", "getModelStats", "run"}

RECURSIVE SumOver(_, _)
SumOver(f, S) == IF S = {} THEN 0
                 ELSE LET x == CHOOSE y \in S : TRUE IN f[x] + SumOver(f, S \ {x})

TotalCalls == SumOver(callCount, OpKinds)

Range(s) == {s[i] : i \in 1..Len(s)}

Max(S) == CHOOSE x \in S : \A y \in S : y <= x

(***************************************************************************)
(* Pure helpers of the store.                                              *)
(***************************************************************************)
\* String.prototype.match with a /g literal: the matches found scanning left
\* to right, each search resuming after the previous match.
RECURSIVE MatchCountFrom(_, _)
MatchCountFrom(s, i) ==
    IF i + Len(Marker) - 1 > Len(s) THEN 0
    ELSE IF SubSeq(s, i, i + Len(Marker) - 1) = Marker
         THEN 1 + MatchCountFrom(s, i + Len(Marker))
         ELSE MatchCountFrom(s, i + 1)

\* (generated_code?.match(/export default function/g) || []).length
componentCount(code) == MatchCountFrom(code, 1)

\* generated_code?.length || 0
codeSizeBytes(code) == Len(code)

\* A plausible slip: split('/')[0] without the includes('/') test, which gives
\* the whole identifier when it has no separator.
deriveProviderNoSentinel(modelUsed) ==
    IF "/" \in Range(modelUsed)
    THEN SubSeq(modelUsed, 1,
                (CHOOSE i \in 1..Len(modelUsed) :
                     /\ modelUsed[i] = "/"
                     /\ \A j \in 1..(i - 1) : modelUsed[j] # "/") - 1)
    ELSE modelUsed

\* modelUsed.includes('/') ? modelUsed.split('/')[0] : 'unknown'
deriveProvider(modelUsed) ==
    IF "/" \in Range(modelUsed)
    THEN LET first == CHOOSE i \in 1..Len(modelUsed) :
                          /\ modelUsed[i] = "/"
                          /\ \A j \in 1..(i - 1) : modelUsed[j] # "/"
         IN  SubSeq(modelUsed, 1, first - 1)
    ELSE Unknown

\* A plausible slip: the identifier after the largest one is not taken.
getNextIdNoIncrement(items) ==
    IF Len(items) > 0 THEN Max({items[i].id : i \in 1..Len(items)}) ELSE 1

\* items.length > 0 ? Math.max(...items.map(item => item.id)) + 1 : 1
getNextId(items) ==
    IF Len(items) > 0 THEN Max({items[i].id : i \in 1..Len(items)}) + 1 ELSE 1

(***************************************************************************)
(* Timestamps.  The clock counts ticks, TicksPerDay to a day.  The stores  *)
(* keep timestamps as text and the SQL statements compare them as text, so *)
(* a timestamp text is modelled by a number that orders as the text does:  *)
(* the date first, then the character after the date ('T' of an ISO string *)
(* sorts after the blank of SQLite's 'YYYY-MM-DD HH:MM:SS'), then the time *)
(* of day.                                                                 *)
(***************************************************************************)
TicksPerDay == 2

\* new Date().toISOString(): 'YYYY-MM-DDTHH:MM:SS.sssZ'
toISOString(t) ==
    (t \div TicksPerDay) * (2 * TicksPerDay) + TicksPerDay + (t % TicksPerDay)

\* CURRENT_TIMESTAMP and datetime(...): 'YYYY-MM-DD HH:MM:SS'
sqlDatetime(t) == (t \div TicksPerDay) * (2 * TicksPerDay) + (t % TicksPerDay)

\* new Date(text).getTime(): the instant either text denotes
getTime(text) == (text \div (2 * TicksPerDay)) * TicksPerDay + (text % TicksPerDay)

(***************************************************************************)
(* File access.  A read that throws (readFileSync or JSON.parse) is caught *)
(* and yields []; a write that throws is caught and the call goes on.      *)
(* writeFileSync truncates before it writes, so a failed write leaves the  *)
(* file either as it was or unparsable.                                    *)
(***************************************************************************)
readFile(file, fault) == IF fault \/ ~file.ok THEN <<>> ELSE file.data

writeFile(file, items, outcome) ==
    CASE outcome = "ok"        -> [ok |-> TRUE, data |-> items]
      [] outcome = "unchanged" -> file
      [] outcome = "corrupt"   -> [ok |-> FALSE, data |-> <<>>]

\* A plausible slip: the catch logs and rethrows.
errorLeavingRethrown(fault) == IF fault THEN "IOFailure" ELSE "none"

\* try { ... } catch (error) { console.error(...) }: the error that leaves
\* readWebsites / readAttempts / writeWebsites / writeAttempts when the file
\* operation inside throws
errorLeaving(fault) == "none"

readWebsites(fault) == readFile(websitesFile, fault)
readAttempts(fault) == readFile(attemptsFile, fault)
writeWebsites(websites, outcome) == writeFile(websitesFile, websites, outcome)
writeAttempts(attempts, outcome) == writeFile(attemptsFile, attempts, outcome)

FaultCount(rf, wo) == (IF rf THEN 1 ELSE 0) + (IF wo # "ok" THEN 1 ELSE 0)

(***************************************************************************)
(* SimpleFileDatabase operations, as the values they compute.              *)
(***************************************************************************)
\* A plausible slip: the new record is written alone, not pushed onto the
\* records read.
saveWebsiteAlone(website, rf, wo) ==
    LET websites == readWebsites(rf)
        newWebsite == [website EXCEPT !.id = getNextId(websites)]
    IN  [file |-> writeWebsites(<<newWebsite>>, wo),
         id   |-> newWebsite.id]

\* saveWebsite: read, allocate, push, write, return the id
saveWebsite(website, rf, wo) ==
    LET websites == readWebsites(rf)
        newWebsite == [website EXCEPT !.id = getNextId(websites)]
    IN  [file |-> writeWebsites(Append(websites, newWebsite), wo),
         id   |-> newWebsite.id]

\* getWebsiteByUrl: websites.find(w => w.url === url) || null   (0 stands for null)
getWebsiteByUrl(url, rf) ==
    LET websites == readWebsites(rf)
        hits == {i \in 1..Len(websites) : websites[i].url = url}
    IN  IF hits = {} THEN 0
        ELSE websites[CHOOSE i \in hits : \A j \in hits : i <= j].id

\* getWebsiteByUrl, the record it resolves to: <<>> stands for null
findWebsiteByUrl(url, rf) ==
    LET websites == readWebsites(rf)
        hits == {i \in 1..Len(websites) : websites[i].url = url}
    IN  IF hits = {} THEN <<>>
        ELSE <<websites[CHOOSE i \in hits : \A j \in hits : i <= j]>>

\* saveCloneAttempt: the spread keeps what the caller passed (provider
\* included); id, code_size_bytes and component_count are overwritten.
saveCloneAttempt(attempt, rf, wo) ==
    LET attempts == readAttempts(rf)
        newAttempt == [attempt EXCEPT
                          !.id = getNextId(attempts),
                          !.code_size_bytes = codeSizeBytes(attempt.generated_code),
                          !.component_count = componentCount(attempt.generated_code)]
    IN  [file |-> writeAttempts(Append(attempts, newAttempt), wo),
         id   |-> newAttempt.id]

NewWebsite(url, title, description) ==
    [id |-> 0, url |-> url, title |-> title, description |-> description,
     scraped_at |-> toISOString(now), status |-> "scraped"]

NewAttempt(websiteId, modelUsed, provider, code, status, errorMessage, timeMs, size, count) ==
    [id |-> 0, website_id |-> websiteId, model_used |-> modelUsed,
     provider |-> provider, generated_code |-> code,
     created_at |-> toISOString(now),
     status |-> status, error_message |-> errorMessage,
     generation_time_ms |-> timeMs, code_size_bytes |-> size,
     component_count |-> count]

\* importSampleData: the two literal arrays
sampleWebsites ==
    << [id |-> 1, url |-> UrlStripe, title |-> <<"Stripe - Online Payment Processing">>,
        description |-> "Accept payments online", scraped_at |-> toISOString(now),
        status |-> "scraped"],
       [id |-> 2, url |-> UrlVercel, title |-> <<"Vercel - Develop. Preview. Ship.">>,
        description |-> "Frontend cloud platform", scraped_at |-> toISOString(now),
        status |-> "scraped"] >>

sampleAttempts ==
    << [id |-> 1, website_id |-> 1, model_used |-> ModelOllama,
        provider |-> ProviderOllama, generated_code |-> SampleCode1,
        created_at |-> toISOString(now), status |-> "success", error_message |-> Undefined,
        generation_time_ms |-> 3500, code_size_bytes |-> 0, component_count |-> 0],
       [id |-> 2, website_id |-> 2, model_used |-> ModelVllm,
        provider |-> ProviderVllm, generated_code |-> SampleCode2,
        created_at |-> toISOString(now), status |-> "success", error_message |-> Undefined,
        generation_time_ms |-> 2800, code_size_bytes |-> 0, component_count |-> 0] >>

(***************************************************************************)
(* Listings and statistics (the same code in both backends).               *)
(***************************************************************************)
\* row[field] || 0 for a field the row may not have
NumberOrZero(row, field) == IF field \in DOMAIN row THEN row[field] ELSE 0

RECURSIVE SumField(_, _)
SumField(rows, field) ==
    IF rows = <<>> THEN 0
    ELSE NumberOrZero(Head(rows), field) + SumField(Tail(rows), field)

RECURSIVE Gcd(_, _)
Gcd(a, b) == IF b = 0 THEN a ELSE Gcd(b, a % b)

\* a / b of two non-negative numbers: a fraction in lowest terms; 0 / 0 is NaN
Divide(a, b) ==
    IF b = 0 THEN [num |-> 0, den |-> 0]
    ELSE [num |-> a \div Gcd(a, b), den |-> b \div Gcd(a, b)]

\* A plausible slip: the .sort(...) left out.
KeepOrder(rows, field) == rows

\* Array.prototype.sort with
\* (a, b) => new Date(b[field]).getTime() - new Date(a[field]).getTime():
\* stable, newest first
RECURSIVE SortNewestFirst(_, _)
SortNewestFirst(rows, field) ==
    IF rows = <<>> THEN <<>>
    ELSE LET front == SortNewestFirst(SubSeq(rows, 1, Len(rows) - 1), field)
             x == rows[Len(rows)]
             before == {i \in 1..Len(front) :
                            getTime(front[i][field]) >= getTime(x[field])}
             k == IF before = {} THEN 0 ELSE Max(before)
         IN  SubSeq(front, 1, k) \o <<x>> \o SubSeq(front, k + 1, Len(front))

\* SELECT ... ORDER BY field DESC on a text column: the texts compared, rows
\* with equal texts in rowid order
RECURSIVE OrderByDesc(_, _)
OrderByDesc(rows, field) ==
    IF rows = <<>> THEN <<>>
    ELSE LET front == OrderByDesc(SubSeq(rows, 1, Len(rows) - 1), field)
             x == rows[Len(rows)]
             before == {i \in 1..Len(front) : front[i][field] >= x[field]}
             k == IF before = {} THEN 0 ELSE Max(before)
         IN  SubSeq(front, 1, k) \o <<x>> \o SubSeq(front, k + 1, Len(front))

FilterByModel(rows, modelName) ==
    LET Test(a) == a.model_used = modelName IN SelectSeq(rows, Test)

\* getCloneAttemptsByModel: filter, then newest created first
getCloneAttemptsByModel(modelName, rf) ==
    SortNewestFirst(FilterByModel(readAttempts(rf), modelName), "created_at")

\* A plausible slip: the mean duration divided by successful.length, as the
\* mean size is.
modelStatsOfSuccessfulOnly(attempts) ==
    IF Len(attempts) = 0 THEN <<>>
    ELSE LET IsSuccess(a) == a.status = "success"
             successful == SelectSeq(attempts, IsSuccess)
         IN  << [total_attempts |-> Len(attempts),
                 success_rate |-> Divide(Len(successful) * 100, Len(attempts)),
                 avg_generation_time_ms |->
                     Divide(SumField(attempts, "generation_time_ms"), Len(successful)),
                 avg_code_size_bytes |->
                     Divide(SumField(successful, "code_size_bytes"), Len(successful)),
                 last_used |-> attempts[1].created_at] >>

\* getCloneAttemptsByWebsite: filter, then newest created first
getCloneAttemptsByWebsite(websiteId, rf) ==
    LET Test(a) == a.website_id = websiteId
    IN  SortNewestFirst(SelectSeq(readAttempts(rf), Test), "created_at")

\* A plausible slip: last_used taken from the other end of the listing.
modelStatsOfOldest(attempts) ==
    IF Len(attempts) = 0 THEN <<>>
    ELSE LET IsSuccess(a) == a.status = "success"
             successful == SelectSeq(attempts, IsSuccess)
         IN  << [total_attempts |-> Len(attempts),
                 success_rate |-> Divide(Len(successful) * 100, Len(attempts)),
                 avg_generation_time_ms |->
                     Divide(SumField(attempts, "generation_time_ms"), Len(attempts)),
                 avg_code_size_bytes |->
                     Divide(SumField(successful, "code_size_bytes"), Len(successful)),
                 last_used |-> attempts[Len(attempts)].created_at] >>

\* getModelStats over the listing of one model; <<>> stands for null
modelStatsOf(attempts) ==
    IF Len(attempts) = 0 THEN <<>>
    ELSE LET IsSuccess(a) == a.status = "success"
             successful == SelectSeq(attempts, IsSuccess)
         IN  << [total_attempts |-> Len(attempts),
                 success_rate |-> Divide(Len(successful) * 100, Len(attempts)),
                 avg_generation_time_ms |->
                     Divide(SumField(attempts, "generation_time_ms"), Len(attempts)),
                 avg_code_size_bytes |->
                     Divide(SumField(successful, "code_size_bytes"), Len(successful)),
                 last_used |-> attempts[1].created_at] >>

getModelStats(modelName, rf) == modelStatsOf(getCloneAttemptsByModel(modelName, rf))

\* A plausible slip: the new Set(...) left out, every value kept.
EveryValue(values) == values

\* new Set(values) then Array.from: the distinct values, first occurrence first
RECURSIVE Distinct(_)
Distinct(values) ==
    IF values = <<>> THEN <<>>
    ELSE LET front == Distinct(SubSeq(values, 1, Len(values) - 1))
             x == values[Len(values)]
         IN  IF x \in Range(front) THEN front ELSE Append(front, x)

\* q || 0 for a number q: NaN and 0 give 0
OrZero(q) == IF q.num = 0 THEN [num |-> 0, den |-> 1] ELSE q

\* a - b <= 0 for two fractions that are numbers
LessOrEqual(a, b) == a.num * b.den <= b.num * a.den

\* Array.prototype.sort with (a, b) => a[field] - b[field] (ascending) or
\* (a, b) => b[field] - a[field] (descending): stable
RECURSIVE SortByNumber(_, _, _)
SortByNumber(rows, field, descending) ==
    IF rows = <<>> THEN <<>>
    ELSE LET front == SortByNumber(SubSeq(rows, 1, Len(rows) - 1), field, descending)
             x == rows[Len(rows)]
             before == {i \in 1..Len(front) :
                            IF descending THEN LessOrEqual(x[field], front[i][field])
                            ELSE LessOrEqual(front[i][field], x[field])}
             k == IF before = {} THEN 0 ELSE Max(before)
         IN  SubSeq(front, 1, k) \o <<x>> \o SubSeq(front, k + 1, Len(front))

RECURSIVE Map(_, _)
Map(rows, field) ==
    IF rows = <<>> THEN <<>> ELSE <<Head(rows)[field]>> \o Map(Tail(rows), field)

\* getProviderComparison over the attempts it has read
providerComparisonOf(attempts) ==
    LET providers == Distinct(Map(attempts, "provider"))
        Stats(provider) ==
            LET OfProvider(a) == a.provider = provider
                IsSuccess(a) == a.status = "success"
                providerAttempts == SelectSeq(attempts, OfProvider)
                successful == SelectSeq(providerAttempts, IsSuccess)
            IN  [provider |-> provider,
                 total_attempts |-> Len(providerAttempts),
                 success_rate |-> Divide(Len(successful) * 100, Len(providerAttempts)),
                 avg_generation_time |->
                     Divide(SumField(providerAttempts, "generation_time_ms"),
                            Len(providerAttempts)),
                 avg_code_size |->
                     OrZero(Divide(SumField(successful, "code_size_bytes"),
                                   Len(successful)))]
    IN  SortByNumber([i \in 1..Len(providers) |-> Stats(providers[i])],
                     "success_rate", TRUE)

getProviderComparison(rf) == providerComparisonOf(readAttempts(rf))

\* getModelPerformanceSummary over the attempts it has read
modelPerformanceSummaryOf(attempts) ==
    LET models == Distinct(Map(attempts, "model_used"))
        Stats(model) ==
            LET IsSuccess(a) == a.status = "success"
                modelAttempts == FilterByModel(attempts, model)
                successful == SelectSeq(modelAttempts, IsSuccess)
            IN  [model_name |-> model,
                 provider |-> IF modelAttempts[1].provider = <<>> THEN Unknown
                              ELSE modelAttempts[1].provider,
                 total_attempts |-> Len(modelAttempts),
                 success_rate |-> Divide(Len(successful) * 100, Len(modelAttempts)),
                 avg_generation_time |->
                     Divide(SumField(modelAttempts, "generation_time_ms"),
                            Len(modelAttempts)),
                 avg_code_size |->
                     OrZero(Divide(SumField(successful, "code_size_bytes"),
                                   Len(successful))),
                 last_used |-> SortNewestFirst(modelAttempts, "created_at")[1].created_at]
    IN  SortByNumber([i \in 1..Len(models) |-> Stats(models[i])],
                     "avg_generation_time", FALSE)

getModelPerformanceSummary(rf) == modelPerformanceSummaryOf(readAttempts(rf))

\* getAllWebsites: newest scraped first
allWebsitesOf(websites) == SortNewestFirst(websites, "scraped_at")

getAllWebsites(rf) == allWebsitesOf(readWebsites(rf))

\* exportData: both collections as they are read
\* A plausible slip: both halves read from the websites file.
exportDataSameFile(rf1, rf2) ==
    [websites |-> readWebsites(rf1), attempts |-> readWebsites(rf2)]

exportData(rf1, rf2) == [websites |-> readWebsites(rf1), attempts |-> readAttempts(rf2)]

(***************************************************************************)
(* DatabaseManager over SQLite (better-sqlite3: synchronous statements,    *)
(* foreign keys enforced).  The tables are those of data/schema.sql.       *)
(***************************************************************************)
\* schema.sql: the columns of clone_attempts
CloneAttemptColumns ==
    {"id", "website_id", "model_used", "style_selected", "additional_instructions",
     "generated_code", "sandbox_url", "created_at", "status", "error_message"}

\* database.ts saveCloneAttempt: the columns its INSERT names
InsertCloneAttemptColumns ==
    {"website_id", "model_used", "provider", "style_selected",
     "additional_instructions", "generated_code", "sandbox_url", "created_at",
     "status", "error_message", "generation_time_ms", "component_count"}

UrlTailwind == "https://tailwindcss.com"
SchemaCode1 == <<"i","m","p","o","r","t","\n">> \o Marker \o <<" ","A","p","p","(",")">>
SchemaCode2 == <<"i","m","p","o","r","t","\n">> \o Marker \o <<" ","A","p","p","(",")","{">>

\* schema.sql: INSERT OR IGNORE INTO websites ... (scraped_at and status by default)
schemaWebsites ==
    << [id |-> 0, url |-> UrlStripe, title |-> <<"Stripe - Online Payment Processing">>,
        description |-> "Accept payments online", scraped_at |-> sqlDatetime(now),
        status |-> "scraped"],
       [id |-> 0, url |-> UrlVercel, title |-> <<"Vercel - Develop. Preview. Ship.">>,
        description |-> "Frontend cloud platform", scraped_at |-> sqlDatetime(now),
        status |-> "scraped"],
       [id |-> 0, url |-> UrlTailwind,
        title |-> <<"Tailwind CSS - Rapidly build modern websites">>,
        description |-> "Utility-first CSS framework", scraped_at |-> sqlDatetime(now),
        status |-> "scraped"] >>

\* schema.sql: INSERT OR IGNORE INTO clone_attempts ... (created_at by default)
schemaAttempts ==
    << [id |-> 0, website_id |-> 1, model_used |-> ModelOllama,
        generated_code |-> SchemaCode1, created_at |-> sqlDatetime(now), status |-> "success",
        error_message |-> Undefined],
       [id |-> 0, website_id |-> 2, model_used |-> ModelVllm,
        generated_code |-> SchemaCode2, created_at |-> sqlDatetime(now), status |-> "success",
        error_message |-> Undefined] >>

EmptyDatabase ==
    [open |-> FALSE, websites |-> <<>>, attempts |-> <<>>, seqW |-> 0, seqA |-> 0]

\* INTEGER PRIMARY KEY AUTOINCREMENT: one more than the largest rowid ever used
nextRowid(rows, seq) == Max({seq} \cup {rows[i].id : i \in 1..Len(rows)}) + 1

\* INSERT [OR IGNORE] INTO websites: url TEXT UNIQUE NOT NULL
insertWebsite(db, website, orIgnore) ==
    IF \E i \in 1..Len(db.websites) : db.websites[i].url = website.url
    THEN [db |-> db, id |-> 0, error |-> IF orIgnore THEN "none" ELSE "SqliteError"]
    ELSE LET id == nextRowid(db.websites, db.seqW)
         IN  [db |-> [db EXCEPT !.websites = Append(@, [website EXCEPT !.id = id]),
                                !.seqW = id],
              id |-> id, error |-> "none"]

\* A plausible slip: the table declared without its FOREIGN KEY clause.
insertCloneAttemptUnchecked(db, row) ==
    LET id == nextRowid(db.attempts, db.seqA)
    IN  [db |-> [db EXCEPT !.attempts = Append(@, [row EXCEPT !.id = id]),
                           !.seqA = id],
         id |-> id, error |-> "none"]

\* INSERT INTO clone_attempts: FOREIGN KEY (website_id) REFERENCES websites (id)
insertCloneAttempt(db, row) ==
    IF ~ \E i \in 1..Len(db.websites) : db.websites[i].id = row.website_id
    THEN [db |-> db, id |-> 0, error |-> "SqliteError"]
    ELSE LET id == nextRowid(db.attempts, db.seqA)
         IN  [db |-> [db EXCEPT !.attempts = Append(@, [row EXCEPT !.id = id]),
                                !.seqA = id],
              id |-> id, error |-> "none"]

\* initializeSQLite: exec(schema) runs the script's statements in order and
\* stops at the first that fails
initializeSQLite(db) ==
    LET w1 == insertWebsite(db, schemaWebsites[1], TRUE).db
        w2 == insertWebsite(w1, schemaWebsites[2], TRUE).db
        w3 == insertWebsite(w2, schemaWebsites[3], TRUE).db
        a1 == insertCloneAttempt(w3, schemaAttempts[1])
        a2 == insertCloneAttempt(a1.db, schemaAttempts[2])
    IN  IF a1.error # "none" THEN w3 ELSE a2.db

\* getSQLiteConnection: open and initialise on first use
getSQLiteConnection(db) ==
    IF db.open THEN db ELSE initializeSQLite([db EXCEPT !.open = TRUE])

NoResult == [error |-> "none", id |-> 0, value |-> <<>>]

\* DatabaseManager.saveWebsite
sqlSaveWebsite(db0, website) ==
    LET r == insertWebsite(getSQLiteConnection(db0), website, FALSE)
    IN  [db |-> r.db, result |-> [error |-> r.error, id |-> r.id, value |-> <<>>]]

\* DatabaseManager.getWebsiteByUrl; <<>> stands for null
sqlGetWebsiteByUrl(db0, url) ==
    LET db == getSQLiteConnection(db0)
        Test(w) == w.url = url
    IN  [db |-> db,
         result |-> [error |-> "none", id |-> 0, value |-> SelectSeq(db.websites, Test)]]

\* DatabaseManager.saveCloneAttempt: prepare() refuses a statement that names
\* a column the table does not have
sqlSaveCloneAttempt(db0, attempt) ==
    LET db == getSQLiteConnection(db0)
        row == [id |-> 0, website_id |-> attempt.website_id,
                model_used |-> attempt.model_used,
                generated_code |-> attempt.generated_code,
                created_at |-> attempt.created_at, status |-> attempt.status,
                error_message |-> attempt.error_message]
        r == insertCloneAttempt(db, row)
    IN  IF ~ (InsertCloneAttemptColumns \subseteq CloneAttemptColumns)
        THEN [db |-> db, result |-> [error |-> "SqliteError", id |-> 0, value |-> <<>>]]
        ELSE [db |-> r.db, result |-> [error |-> r.error, id |-> r.id, value |-> <<>>]]

\* DatabaseManager.getCloneAttemptsByModel: ... WHERE model_used = ? ORDER BY created_at DESC
sqlGetCloneAttemptsByModel(db0, modelName) ==
    LET db == getSQLiteConnection(db0)
    IN  [db |-> db,
         result |-> [error |-> "none", id |-> 0,
                     value |-> OrderByDesc(FilterByModel(db.attempts, modelName),
                                           "created_at")]]

\* database.ts getModelStats
sqlGetModelStats(db0, modelName) ==
    LET l == sqlGetCloneAttemptsByModel(db0, modelName)
    IN  [db |-> l.db,
         result |-> [error |-> "none", id |-> 0, value |-> modelStatsOf(l.result.value)]]

\* database.ts trackWebsiteClone, awaited to its end; a throw ends the call
sqlTrackWebsiteClone(db0, url, t) ==
    LET found == sqlGetWebsiteByUrl(db0, url)
        saved == sqlSaveWebsite(found.db,
                     NewWebsite(url, <<"Website: ", url>>, "Scraped for cloning"))
        websiteId == IF found.result.value # <<>> THEN found.result.value[1].id
                     ELSE saved.result.id
        db1 == IF found.result.value # <<>> THEN found.db ELSE saved.db
    IN  IF found.result.value = <<>> /\ saved.result.error # "none"
        THEN saved
        ELSE sqlSaveCloneAttempt(db1,
                 NewAttempt(websiteId, t.modelUsed, deriveProvider(t.modelUsed),
                            t.generatedCode, t.status, Undefined, t.generationTimeMs,
                            codeSizeBytes(t.generatedCode),
                            componentCount(t.generatedCode)))

(***************************************************************************)
(* DatabaseManager's analytical copy (DuckDB).  The tables are those of    *)
(* data/duckdb_schema.sql; constraints are enforced as they are declared   *)
(* (PRIMARY KEY, UNIQUE, NOT NULL, FOREIGN KEY), generated columns are     *)
(* computed, and INSERT OR REPLACE replaces the row that has the same      *)
(* primary key.  A TIMESTAMP column holds an instant: a text bound to it   *)
(* is parsed.                                                              *)
(***************************************************************************)
\* database.ts:286  datetime("now", "-7 days")
WindowDays == 7
WindowTicks == WindowDays * TicksPerDay

UrlOpenai == "https://openai.com"

\* duckdb_schema.sql: INSERT INTO websites VALUES (1, ...), (2, ...), (3, ...), (4, ...)
duckSampleWebsites ==
    << [id |-> 1, url |-> UrlStripe, title |-> <<"Stripe - Online Payment Processing">>,
        description |-> "Accept payments online", scraped_at |-> now,
        status |-> "scraped"],
       [id |-> 2, url |-> UrlVercel, title |-> <<"Vercel - Develop. Preview. Ship.">>,
        description |-> "Frontend cloud platform", scraped_at |-> now,
        status |-> "scraped"],
       [id |-> 3, url |-> UrlTailwind,
        title |-> <<"Tailwind CSS - Rapidly build modern websites">>,
        description |-> "Utility-first CSS framework", scraped_at |-> now,
        status |-> "scraped"],
       [id |-> 4, url |-> UrlOpenai, title |-> <<"OpenAI - AI Research and Deployment">>,
        description |-> "Artificial intelligence research company",
        scraped_at |-> now, status |-> "scraped"] >>

\* initializeDuckDB: schema.split(';') with the blank pieces dropped.  The
\* sixth piece ends inside the string literal 'import React from "react";...'
\* of the first sample attempt; the loop never gets past it.
duckSchemaStatements ==
    << "CREATE TABLE websites", "CREATE TABLE clone_attempts",
       "CREATE TABLE code_files", "CREATE TABLE model_benchmarks",
       "INSERT INTO websites", "INSERT INTO clone_attempts (cut at ';')" >>

EmptyAnalytics ==
    [connected |-> FALSE, tables |-> {}, websites |-> <<>>, attempts |-> <<>>]

duckCreateTable(d, name) ==
    IF name \in d.tables
    THEN [duck |-> d, error |-> "CatalogError"]
    ELSE [duck |-> [d EXCEPT !.tables = @ \cup {name}], error |-> "none"]

\* INSERT INTO websites VALUES ...: all rows or none
duckInsertWebsites(d, rows) ==
    IF "websites" \notin d.tables
    THEN [duck |-> d, error |-> "CatalogError"]
    ELSE IF \E i \in 1..Len(rows), j \in 1..Len(d.websites) :
                \/ rows[i].id = d.websites[j].id
                \/ rows[i].url = d.websites[j].url
         THEN [duck |-> d, error |-> "ConstraintError"]
         ELSE [duck |-> [d EXCEPT !.websites = @ \o rows], error |-> "none"]

\* connection.run(statement, callback) for one piece of the schema
duckRunSchemaStatement(d, k) ==
    CASE k = 1 -> duckCreateTable(d, "websites")
      [] k = 2 -> duckCreateTable(d, "clone_attempts")
      [] k = 3 -> duckCreateTable(d, "code_files")
      [] k = 4 -> duckCreateTable(d, "model_benchmarks")
      [] k = 5 -> duckInsertWebsites(d, duckSampleWebsites)
      [] OTHER -> [duck |-> d, error |-> "ParserError"]

\* the value bound for row.name: <<>> when the row has no such property
BoundValue(row, name) == IF name \in DOMAIN row THEN <<row[name]>> ELSE <<>>

ReplaceById(rows, row) ==
    IF \E i \in 1..Len(rows) : rows[i].id = row.id
    THEN [i \in 1..Len(rows) |-> IF rows[i].id = row.id THEN row ELSE rows[i]]
    ELSE Append(rows, row)

\* INSERT OR REPLACE INTO websites VALUES (?, ?, ?, ?, ?, ?, ?, ?, ?, ?)
duckReplaceWebsite(d, website) ==
    IF "websites" \notin d.tables
    THEN [duck |-> d, error |-> "CatalogError"]
    ELSE IF \E j \in 1..Len(d.websites) :
                d.websites[j].url = website.url /\ d.websites[j].id # website.id
         THEN [duck |-> d, error |-> "ConstraintError"]
         ELSE [duck |-> [d EXCEPT !.websites =
                            ReplaceById(@, [website EXCEPT
                                               !.scraped_at = getTime(website.scraped_at)])],
               error |-> "none"]

\* INSERT OR REPLACE INTO clone_attempts VALUES (?, ... 13 times): provider is
\* NOT NULL, website_id references websites (id), code_size_bytes is generated
duckReplaceAttempt(d, attempt) ==
    IF "clone_attempts" \notin d.tables
    THEN [duck |-> d, error |-> "CatalogError"]
    ELSE IF BoundValue(attempt, "provider") = <<>>
         THEN [duck |-> d, error |-> "ConstraintError"]
         ELSE IF ~ \E j \in 1..Len(d.websites) : d.websites[j].id = attempt.website_id
              THEN [duck |-> d, error |-> "ConstraintError"]
              ELSE [duck |-> [d EXCEPT !.attempts =
                                 ReplaceById(@,
                                     [id |-> attempt.id, website_id |-> attempt.website_id,
                                      model_used |-> attempt.model_used,
                                      provider |-> attempt.provider,
                                      generated_code |-> attempt.generated_code,
                                      created_at |-> getTime(attempt.created_at),
                                      status |-> attempt.status,
                                      error_message |-> attempt.error_message,
                                      generation_time_ms |->
                                          BoundValue(attempt, "generation_time_ms"),
                                      code_size_bytes |-> Len(attempt.generated_code),
                                      component_count |->
                                          BoundValue(attempt, "component_count")])],
                    error |-> "none"]

\* initializeDuckDB from the k-th piece of the schema on, awaited to its end:
\* the first error rejects
RECURSIVE duckInitializeFrom(_, _)
duckInitializeFrom(d, k) ==
    LET r == duckRunSchemaStatement(d, k)
    IN  IF r.error # "none" \/ k = Len(duckSchemaStatements) THEN r
        ELSE duckInitializeFrom(r.duck, k + 1)

\* SELECT provider, COUNT(*), AVG(generation_time_ms), COUNT(CASE WHEN status =
\* 'success' THEN 1 END) * 100.0 / COUNT(*), AVG(code_size_bytes)
\* FROM clone_attempts GROUP BY provider ORDER BY success_rate DESC
duckProviderComparison(rows) ==
    LET providers == Distinct(Map(rows, "provider"))
        Stats(provider) ==
            LET OfProvider(a) == a.provider = provider
                IsSuccess(a) == a.status = "success"
                Timed(a) == a.generation_time_ms # <<>>
                group == SelectSeq(rows, OfProvider)
                timed == SelectSeq(group, Timed)
            IN  [provider |-> provider,
                 total_attempts |-> Len(group),
                 avg_generation_time |->
                     Divide(SumOver([i \in 1..Len(timed) |-> timed[i].generation_time_ms[1]],
                                    1..Len(timed)), Len(timed)),
                 success_rate |-> Divide(Len(SelectSeq(group, IsSuccess)) * 100, Len(group)),
                 avg_code_size |-> Divide(SumField(group, "code_size_bytes"), Len(group))]
    IN  SortByNumber([i \in 1..Len(providers) |-> Stats(providers[i])],
                     "success_rate", TRUE)

\* DatabaseManager.getProviderComparison, awaited to its end:
\* getDuckDBConnection (which sets this.duckDbConnection and then awaits
\* initializeDuckDB), then the query
duckGetProviderComparison(d) ==
    LET opened == IF d.connected THEN [duck |-> d, error |-> "none"]
                  ELSE duckInitializeFrom([d EXCEPT !.connected = TRUE], 1)
    IN  IF opened.error # "none"
        THEN [duck |-> opened.duck,
              result |-> [error |-> opened.error, id |-> 0, value |-> <<>>]]
        ELSE IF "clone_attempts" \notin opened.duck.tables
        THEN [duck |-> opened.duck,
              result |-> [error |-> "CatalogError", id |-> 0, value |-> <<>>]]
        ELSE [duck |-> opened.duck,
              result |-> [error |-> "none", id |-> 0,
                          value |-> duckProviderComparison(opened.duck.attempts)]]

\* SELECT * FROM <table> WHERE <field> > datetime("now", "-7 days")
selectRecent(rows, field) ==
    LET Recent(r) == r[field] > sqlDatetime(now - WindowTicks)
    IN  SelectSeq(rows, Recent)

(***************************************************************************)
(* Initial state: the constructor has created both files holding [].       *)
(***************************************************************************)
NoLoc == [serial |-> 0, url |-> "", modelUsed |-> <<>>, generatedCode |-> <<>>,
          generationTimeMs |-> 0, status |-> "", website |-> 0, attemptId |-> 0]

NoRet == [op |-> "none", arg |-> 0, id |-> 0, error |-> "none"]

\* no request yet.  body: what the POST body was; success, status: the
\* envelope of the response.  seen (history): the contents the two files have had
\* since the request began
NoRequest ==
    [action |-> "none", pc |-> "idle", models |-> <<>>, providers |-> <<>>,
     websites |-> <<>>, totalWebsites |-> 0,
     export |-> [websites |-> <<>>, attempts |-> <<>>], seen |-> {},
     model_name |-> <<>>, data |-> <<>>,
     body |-> "none", success |-> FALSE, status |-> 0]

\* syncToAnalytics before its first call.  pc: where the call is suspended, or
\* how the last call ended; statement: the piece of the schema to run next;
\* websites, attempts: the rows read and not yet copied.  History: startedAt
\* and primarySize (the clock and the number of websites rows when the call
\* began), written (the identifiers the call has copied), again (the call
\* before this one began at the same clock with the same primary rows) and
\* before (the analytical rows when the call began).
NoSync ==
    [pc |-> "idle", statement |-> 0, websites |-> <<>>, attempts |-> <<>>,
     startedAt |-> 0, primarySize |-> 0, written |-> {}, again |-> FALSE,
     before |-> [websites |-> {}, attempts |-> {}]]

\* a caller that has written nothing and asked nothing.  written: the records
\* as its successful saveWebsite / saveCloneAttempt calls stored them, in call
\* order; op, url, id, model: its last query and the argument; answer: what
\* the query returned (<<>> stands for null)
NoClient ==
    [written |-> [websites |-> <<>>, attempts |-> <<>>],
     op |-> "none", url |-> "", id |-> 0, model |-> <<>>, answer |-> <<>>]

Init ==
    /\ websitesFile = [ok |-> TRUE, data |-> <<>>]
    /\ attemptsFile = [ok |-> TRUE, data |-> <<>>]
    /\ now = 0
    /\ pc = [p \in Procs |-> "idle"]
    /\ loc = [p \in Procs |-> NoLoc]
    /\ ret = NoRet
    /\ faults = 0
    /\ callCount = [k \in OpKinds |-> 0]
    /\ issuedW = {}
    /\ issuedA = {}
    /\ tracked = {}
    /\ sqlite = EmptyDatabase
    /\ obs = [file |-> NoResult, sql |-> NoResult]
    /\ duck = EmptyAnalytics
    /\ sync = NoSync
    /\ req = NoRequest
    /\ client = NoClient

CanCall == TotalCalls < MaxCalls

Started(kind) == [callCount EXCEPT ![kind] = @ + 1]

(***************************************************************************)
(* Direct calls of the store (no await inside: one step each).             *)
(***************************************************************************)
\* dbManager.saveWebsite({url, title, ...})
CallSaveWebsite ==
    /\ CanCall
    /\ \E url \in Urls, rf \in FaultFlags, wo \in WriteOutcomes :
         LET r == saveWebsite(NewWebsite(url, <<"title">>, "description"), rf, wo)
         IN  /\ faults + FaultCount(rf, wo) <= MaxFaults
             /\ faults' = faults + FaultCount(rf, wo)
             /\ websitesFile' = r.file
             /\ ret' = [op |-> "saveWebsite", arg |-> 0, id |-> r.id, error |-> "none"]
             /\ issuedW' = issuedW \cup {[id |-> r.id, origin |-> <<"call", TotalCalls + 1>>]}
    /\ callCount' = Started("saveWebsite")
    /\ UNCHANGED <<attemptsFile, now, pc, loc, issuedA, tracked, sqlVars, duckVars, req, client>>

\* dbManager.saveCloneAttempt({website_id, model_used, provider, ...})
CallSaveCloneAttempt ==
    /\ CanCall
    /\ \E wid \in WebsiteIds, a \in AttemptInputs, rf \in FaultFlags, wo \in WriteOutcomes :
         LET r == saveCloneAttempt(
                      NewAttempt(wid, a.model_used, a.provider, a.generated_code,
                                 a.status, Undefined, a.generation_time_ms,
                                 a.code_size_bytes, a.component_count), rf, wo)
         IN  /\ faults + FaultCount(rf, wo) <= MaxFaults
             /\ faults' = faults + FaultCount(rf, wo)
             /\ attemptsFile' = r.file
             /\ ret' = [op |-> "saveCloneAttempt", arg |-> wid, id |-> r.id,
                        error |-> "none"]
             /\ issuedA' = issuedA \cup {[id |-> r.id, origin |-> <<"call", TotalCalls + 1>>]}
    /\ callCount' = Started("saveCloneAttempt")
    /\ UNCHANGED <<websitesFile, now, pc, loc, issuedW, tracked, sqlVars, duckVars, req, client>>

\* initializeSampleData() -> dbManager.importSampleData(): both collections
\* are replaced by the literal arrays
importSampleData ==
    /\ CanCall
    /\ \E wo1 \in WriteOutcomes, wo2 \in WriteOutcomes :
         /\ faults + FaultCount(FALSE, wo1) + FaultCount(FALSE, wo2) <= MaxFaults
         /\ faults' = faults + FaultCount(FALSE, wo1) + FaultCount(FALSE, wo2)
         /\ websitesFile' = writeWebsites(sampleWebsites, wo1)
         /\ attemptsFile' = writeAttempts(sampleAttempts, wo2)
    /\ ret' = [op |-> "importSampleData", arg |-> 0, id |-> 0, error |-> "none"]
    /\ issuedW' = issuedW \cup {[id |-> 1, origin |-> <<"sample", 1>>],
                                [id |-> 2, origin |-> <<"sample", 2>>]}
    /\ issuedA' = issuedA \cup {[id |-> 1, origin |-> <<"sample", 1>>],
                                [id |-> 2, origin |-> <<"sample", 2>>]}
    /\ callCount' = Started("importSampleData")
    /\ UNCHANGED <<now, pc, loc, tracked, sqlVars, duckVars, req, client>>

(***************************************************************************)
(* trackWebsiteClone: three awaits, so four steps.                         *)
(***************************************************************************)
\* the call up to `await dbManager.getWebsiteByUrl(url)`
TrackLookup(p) ==
    /\ CanCall
    /\ pc[p] = "idle"
    /\ \E url \in Urls, t \in TrackInputs, rf \in FaultFlags :
         /\ faults + FaultCount(rf, "ok") <= MaxFaults
         /\ faults' = faults + FaultCount(rf, "ok")
         /\ loc' = [loc EXCEPT ![p] =
                       [serial |-> TotalCalls + 1, url |-> url,
                        modelUsed |-> t.modelUsed, generatedCode |-> t.generatedCode,
                        generationTimeMs |-> t.generationTimeMs, status |-> t.status,
                        website |-> getWebsiteByUrl(url, rf), attemptId |-> 0]]
    /\ pc' = [pc EXCEPT ![p] = "afterLookup"]
    /\ callCount' = Started("trackWebsiteClone")
    /\ UNCHANGED <<websitesFile, attemptsFile, now, ret, issuedW, issuedA, tracked, sqlVars, duckVars, req, client>>

\* if (!website) { websiteId = await dbManager.saveWebsite({...}) }
TrackSaveWebsite(p) ==
    /\ pc[p] = "afterLookup"
    /\ loc[p].website = 0
    /\ \E rf \in FaultFlags, wo \in WriteOutcomes :
         LET r == saveWebsite(
                      NewWebsite(loc[p].url, <<"Website: ", loc[p].url>>,
                                 "Scraped for cloning"), rf, wo)
         IN  /\ faults + FaultCount(rf, wo) <= MaxFaults
             /\ faults' = faults + FaultCount(rf, wo)
             /\ websitesFile' = r.file
             /\ loc' = [loc EXCEPT ![p].website = r.id]
             /\ issuedW' = issuedW \cup {[id |-> r.id, origin |-> <<"call", loc[p].serial>>]}
    /\ pc' = [pc EXCEPT ![p] = "afterSaveWebsite"]
    /\ UNCHANGED <<attemptsFile, now, ret, callCount, issuedA, tracked, sqlVars, duckVars, req, client>>

\* provider = ...; attemptId = await dbManager.saveCloneAttempt({...})
TrackSaveAttempt(p) ==
    /\ \/ pc[p] = "afterLookup" /\ loc[p].website # 0
       \/ pc[p] = "afterSaveWebsite"
    /\ \E rf \in FaultFlags, wo \in WriteOutcomes :
         LET provider == deriveProvider(loc[p].modelUsed)
             r == saveCloneAttempt(
                      NewAttempt(loc[p].website, loc[p].modelUsed, provider,
                                 loc[p].generatedCode, loc[p].status, Undefined,
                                 loc[p].generationTimeMs, Undefined, Undefined), rf, wo)
         IN  /\ faults + FaultCount(rf, wo) <= MaxFaults
             /\ faults' = faults + FaultCount(rf, wo)
             /\ attemptsFile' = r.file
             /\ loc' = [loc EXCEPT ![p].attemptId = r.id]
             /\ issuedA' = issuedA \cup {[id |-> r.id, origin |-> <<"call", loc[p].serial>>]}
             /\ tracked' = tracked \cup {[attemptId |-> r.id, url |-> loc[p].url]}
    /\ pc' = [pc EXCEPT ![p] = "afterSaveAttempt"]
    /\ UNCHANGED <<websitesFile, now, ret, callCount, issuedW, sqlVars, duckVars, req, client>>

\* return attemptId
TrackReturn(p) ==
    /\ pc[p] = "afterSaveAttempt"
    /\ ret' = [op |-> "trackWebsiteClone", arg |-> loc[p].website,
               id |-> loc[p].attemptId, error |-> "none"]
    /\ pc' = [pc EXCEPT ![p] = "idle"]
    /\ loc' = [loc EXCEPT ![p] = NoLoc]
    /\ UNCHANGED <<websitesFile, attemptsFile, now, faults, callCount,
                   issuedW, issuedA, tracked, sqlVars, duckVars, req, client>>

\* time passes between two readings of new Date()
Tick ==
    /\ now < MaxTime
    /\ now' = now + 1
    /\ UNCHANGED <<websitesFile, attemptsFile, pc, loc, ret, faults, callCount,
                   issuedW, issuedA, tracked, sqlVars, duckVars, req, client>>

Next ==
    \/ CallSaveWebsite
    \/ CallSaveCloneAttempt
    \/ importSampleData
    \/ \E p \in Procs : TrackLookup(p)
    \/ \E p \in Procs : TrackSaveWebsite(p)
    \/ \E p \in Procs : TrackSaveAttempt(p)
    \/ \E p \in Procs : TrackReturn(p)

Spec == Init /\ [][Next]_vars

(***************************************************************************)
(* The same call made on both backends, one call after the other.          *)
(***************************************************************************)
FileResult(id, value) == [error |-> "none", id |-> id, value |-> value]

EqSaveWebsite ==
    /\ CanCall
    /\ \E url \in Urls :
         LET w == NewWebsite(url, <<"title">>, "description")
             f == saveWebsite(w, FALSE, "ok")
             q == sqlSaveWebsite(sqlite, w)
         IN  /\ websitesFile' = f.file
             /\ sqlite' = q.db
             /\ obs' = [file |-> FileResult(f.id, <<>>), sql |-> q.result]
    /\ callCount' = Started("saveWebsite")
    /\ UNCHANGED <<attemptsFile, now, pc, loc, ret, histVars, duckVars, req, client>>

EqSaveCloneAttempt ==
    /\ CanCall
    /\ \E wid \in WebsiteIds, a \in AttemptInputs :
         LET attempt == NewAttempt(wid, a.model_used, a.provider, a.generated_code,
                                   a.status, Undefined, a.generation_time_ms,
                                   a.code_size_bytes, a.component_count)
             f == saveCloneAttempt(attempt, FALSE, "ok")
             q == sqlSaveCloneAttempt(sqlite, attempt)
         IN  /\ attemptsFile' = f.file
             /\ sqlite' = q.db
             /\ obs' = [file |-> FileResult(f.id, <<>>), sql |-> q.result]
    /\ callCount' = Started("saveCloneAttempt")
    /\ UNCHANGED <<websitesFile, now, pc, loc, ret, histVars, duckVars, req, client>>

EqTrackWebsiteClone ==
    /\ CanCall
    /\ \E url \in Urls, t \in TrackInputs :
         LET found == getWebsiteByUrl(url, FALSE)
             w == saveWebsite(NewWebsite(url, <<"Website: ", url>>,
                                         "Scraped for cloning"), FALSE, "ok")
             websiteId == IF found # 0 THEN found ELSE w.id
             f == saveCloneAttempt(
                      NewAttempt(websiteId, t.modelUsed, deriveProvider(t.modelUsed),
                                 t.generatedCode, t.status, Undefined,
                                 t.generationTimeMs, Undefined, Undefined),
                      FALSE, "ok")
             q == sqlTrackWebsiteClone(sqlite, url, t)
         IN  /\ websitesFile' = IF found # 0 THEN websitesFile ELSE w.file
             /\ attemptsFile' = f.file
             /\ sqlite' = q.db
             /\ obs' = [file |-> FileResult(f.id, <<>>), sql |-> q.result]
    /\ callCount' = Started("trackWebsiteClone")
    /\ UNCHANGED <<now, pc, loc, ret, histVars, duckVars, req, client>>

EqGetWebsiteByUrl ==
    /\ CanCall
    /\ \E url \in Urls :
         LET Test(w) == w.url = url
             hits == SelectSeq(readWebsites(FALSE), Test)
             q == sqlGetWebsiteByUrl(sqlite, url)
         IN  /\ sqlite' = q.db
             /\ obs' = [file |-> FileResult(0, IF hits = <<>> THEN <<>> ELSE <<hits[1]>>), sql |-> q.result]
    /\ callCount' = Started("getWebsiteByUrl")
    /\ UNCHANGED <<fileVars, now, pc, loc, ret, histVars, duckVars, req, client>>

EqGetCloneAttemptsByModel ==
    /\ CanCall
    /\ \E m \in Models :
         LET q == sqlGetCloneAttemptsByModel(sqlite, m)
         IN  /\ sqlite' = q.db
             /\ obs' = [file |-> FileResult(0, getCloneAttemptsByModel(m, FALSE)),
                        sql |-> q.result]
    /\ callCount' = Started("getCloneAttemptsByModel")
    /\ UNCHANGED <<fileVars, now, pc, loc, ret, histVars, duckVars, req, client>>

EqGetModelStats ==
    /\ CanCall
    /\ \E m \in Models :
         LET q == sqlGetModelStats(sqlite, m)
         IN  /\ sqlite' = q.db
             /\ obs' = [file |-> FileResult(0, getModelStats(m, FALSE)),
                        sql |-> q.result]
    /\ callCount' = Started("getModelStats")
    /\ UNCHANGED <<fileVars, now, pc, loc, ret, histVars, duckVars, req, client>>

NextEquiv ==
    \/ EqSaveWebsite
    \/ EqSaveCloneAttempt
    \/ EqTrackWebsiteClone
    \/ EqGetWebsiteByUrl
    \/ EqGetCloneAttemptsByModel
    \/ EqGetModelStats
    \/ Tick

SpecEquiv == Init /\ [][NextEquiv]_vars

(***************************************************************************)
(* DatabaseManager: saveWebsite on the primary and syncToAnalytics, one    *)
(* call of syncToAnalytics after the other.  Each await of syncToAnalytics *)
(* ends a step; a rejected promise ends the call.                          *)
(***************************************************************************)
AnalyticalRows == [websites |-> Range(duck.websites), attempts |-> Range(duck.attempts)]

\* dbManager.saveWebsite({url, ...}) of database.ts
SqlSaveWebsite ==
    /\ CanCall
    /\ \E url \in Urls :
         sqlite' = sqlSaveWebsite(sqlite, NewWebsite(url, <<"title">>, "description")).db
    /\ callCount' = Started("saveWebsite")
    /\ UNCHANGED <<fileVars, now, pc, loc, ret, histVars, obs, duckVars, req, client>>

\* the call up to `await this.getDuckDBConnection()`; getDuckDBConnection
\* sets this.duckDbConnection before it awaits initializeDuckDB
SyncStart ==
    /\ sync.pc \in {"idle", "resolved", "rejected"}
    /\ sqlite' = getSQLiteConnection(sqlite)
    /\ duck' = [duck EXCEPT !.connected = TRUE]
    /\ sync' = [pc |-> IF duck.connected THEN "read" ELSE "initialize",
                statement |-> IF duck.connected THEN 0 ELSE 1,
                websites |-> <<>>, attempts |-> <<>>,
                startedAt |-> now, primarySize |-> Len(sqlite'.websites),
                written |-> {},
                again |-> /\ sync.pc # "idle"
                          /\ sync.startedAt = now
                          /\ sync.primarySize = Len(sqlite'.websites),
                before |-> AnalyticalRows]
    /\ UNCHANGED <<fileVars, now, pc, loc, ret, histVars, callCount, obs, req, client>>

\* initializeDuckDB: one piece of the schema per await; the first error rejects
SyncInitialize ==
    /\ sync.pc = "initialize"
    /\ LET r == duckRunSchemaStatement(duck, sync.statement)
       IN  /\ duck' = r.duck
           /\ sync' = IF r.error # "none" THEN [sync EXCEPT !.pc = "rejected"]
                      ELSE IF sync.statement = Len(duckSchemaStatements)
                           THEN [sync EXCEPT !.pc = "read"]
                           ELSE [sync EXCEPT !.statement = @ + 1]
    /\ UNCHANGED <<fileVars, now, pc, loc, ret, histVars, callCount, sqlVars, req, client>>

\* the two SELECTs over the primary
SyncRead ==
    /\ sync.pc = "read"
    /\ sync' = [sync EXCEPT !.pc = "copy",
                            !.websites = selectRecent(sqlite.websites, "scraped_at"),
                            !.attempts = selectRecent(sqlite.attempts, "created_at")]
    /\ UNCHANGED <<fileVars, now, pc, loc, ret, histVars, callCount, sqlVars, duck, req, client>>

\* one INSERT OR REPLACE: the websites first, then the attempts
SyncCopy ==
    /\ sync.pc = "copy"
    /\ sync.websites # <<>> \/ sync.attempts # <<>>
    /\ LET r == IF sync.websites # <<>>
                THEN duckReplaceWebsite(duck, Head(sync.websites))
                ELSE duckReplaceAttempt(duck, Head(sync.attempts))
       IN  /\ duck' = r.duck
           /\ sync' = IF r.error # "none" THEN [sync EXCEPT !.pc = "rejected"]
                      ELSE IF sync.websites # <<>>
                           THEN [sync EXCEPT
                                    !.websites = Tail(@),
                                    !.written = @ \cup {<<"website", Head(sync.websites).id>>}]
                           ELSE [sync EXCEPT
                                    !.attempts = Tail(@),
                                    !.written = @ \cup {<<"attempt", Head(sync.attempts).id>>}]
    /\ UNCHANGED <<fileVars, now, pc, loc, ret, histVars, callCount, sqlVars, req, client>>

\* both loops are through: the promise resolves
SyncReturn ==
    /\ sync.pc = "copy"
    /\ sync.websites = <<>> /\ sync.attempts = <<>>
    /\ sync' = [sync EXCEPT !.pc = "resolved"]
    /\ UNCHANGED <<fileVars, now, pc, loc, ret, histVars, callCount, sqlVars, duck, req, client>>

\* the instants at which the model looks at the clock: the first day of
\* every week, tick by tick
ClockReadings == {t \in 0..MaxTicks : t % WindowTicks < TicksPerDay}

\* time passes, to a later one of these instants
TimePasses ==
    /\ \E t \in ClockReadings :
         /\ t > now
         /\ now' = t
    /\ UNCHANGED <<fileVars, pc, loc, ret, histVars, callCount, sqlVars, duckVars, req, client>>

SyncRun == SyncStart \/ SyncInitialize \/ SyncRead \/ SyncCopy \/ SyncReturn

NextSync ==
    \/ SqlSaveWebsite
    \/ SyncStart
    \/ SyncInitialize
    \/ SyncRead
    \/ SyncCopy
    \/ SyncReturn
    \/ TimePasses

SpecSync == Init /\ [][NextSync]_vars

\* syncToAnalytics keeps being called, and a call that can go on does
SpecSyncFair == SpecSync /\ WF_vars(SyncRun)

(***************************************************************************)
(* The analytics route (GET) over the file store, with other callers of    *)
(* the store running between the awaits of a request.                      *)
(***************************************************************************)
StoreContents(websites, attempts) ==
    [websites |-> readFile(websites, FALSE), attempts |-> readFile(attempts, FALSE)]

InFlight == req.pc \in {"afterModels", "afterProviders"}

\* the request in flight has one more state of the files to look back on
Seen(websites, attempts) ==
    IF InFlight THEN [req EXCEPT !.seen = @ \cup {StoreContents(websites, attempts)}]
    ELSE req

\* A plausible slip: slice(-10), the last ten of the listing.
LastTen(rows) == SubSeq(rows, IF Len(rows) < 10 THEN 1 ELSE Len(rows) - 9, Len(rows))

\* websites.slice(0, 10)
FirstTen(rows) == SubSeq(rows, 1, IF Len(rows) < 10 THEN Len(rows) ELSE 10)

\* GET ?action=init: await initializeSampleData()
GetInit ==
    /\ CanCall
    /\ websitesFile' = writeWebsites(sampleWebsites, "ok")
    /\ attemptsFile' = writeAttempts(sampleAttempts, "ok")
    /\ req' = Seen(websitesFile', attemptsFile')
    /\ callCount' = Started("importSampleData")
    /\ UNCHANGED <<now, pc, loc, ret, histVars, sqlVars, duckVars, client>>

\* another caller's dbManager.saveWebsite(...)
OtherSaveWebsite ==
    /\ CanCall
    /\ \E url \in Urls :
         websitesFile' =
             saveWebsite(NewWebsite(url, <<"title">>, "description"), FALSE, "ok").file
    /\ req' = Seen(websitesFile', attemptsFile)
    /\ callCount' = Started("saveWebsite")
    /\ UNCHANGED <<attemptsFile, now, pc, loc, ret, histVars, sqlVars, duckVars, client>>

\* another caller's dbManager.saveCloneAttempt(...)
OtherSaveCloneAttempt ==
    /\ CanCall
    /\ \E wid \in WebsiteIds, a \in AttemptInputs :
         attemptsFile' =
             saveCloneAttempt(
                 NewAttempt(wid, a.model_used, a.provider, a.generated_code, a.status,
                            Undefined, a.generation_time_ms, a.code_size_bytes,
                            a.component_count), FALSE, "ok").file
    /\ req' = Seen(websitesFile, attemptsFile')
    /\ callCount' = Started("saveCloneAttempt")
    /\ UNCHANGED <<websitesFile, now, pc, loc, ret, histVars, sqlVars, duckVars, client>>

\* GET ?action=stats up to the end of `await dbManager.getModelPerformanceSummary()`
GetStatsModels ==
    /\ ~InFlight
    /\ req' = [NoRequest EXCEPT
                  !.action = "stats", !.pc = "afterModels",
                  !.models = getModelPerformanceSummary(FALSE),
                  !.seen = {StoreContents(websitesFile, attemptsFile)}]
    /\ UNCHANGED <<fileVars, now, pc, loc, ret, histVars, callCount, sqlVars, duckVars, client>>

\* ... `await dbManager.getProviderComparison()`
GetStatsProviders ==
    /\ req.pc = "afterModels"
    /\ req' = [req EXCEPT !.pc = "afterProviders",
                          !.providers = getProviderComparison(FALSE)]
    /\ UNCHANGED <<fileVars, now, pc, loc, ret, histVars, callCount, sqlVars, duckVars, client>>

\* ... `await dbManager.getAllWebsites()` and the response
GetStatsWebsites ==
    /\ req.pc = "afterProviders"
    /\ req' = [req EXCEPT !.pc = "responded", !.success = TRUE, !.status = 200,
                          !.websites = FirstTen(getAllWebsites(FALSE)),
                          !.totalWebsites = Len(getAllWebsites(FALSE))]
    /\ UNCHANGED <<fileVars, now, pc, loc, ret, histVars, callCount, sqlVars, duckVars, client>>

\* GET ?action=export: exportData reads both files in one go
GetExport ==
    /\ ~InFlight
    /\ req' = [NoRequest EXCEPT
                  !.action = "export", !.pc = "responded",
                  !.success = TRUE, !.status = 200,
                  !.export = exportData(FALSE, FALSE),
                  !.seen = {StoreContents(websitesFile, attemptsFile)}]
    /\ UNCHANGED <<fileVars, now, pc, loc, ret, histVars, callCount, sqlVars, duckVars, client>>

NextRoute ==
    \/ GetInit
    \/ OtherSaveWebsite
    \/ OtherSaveCloneAttempt
    \/ GetStatsModels
    \/ GetStatsProviders
    \/ GetStatsWebsites
    \/ GetExport

SpecRoute == Init /\ [][NextRoute]_vars

(***************************************************************************)
(* DatabaseManager over SQLite: its save operations, and an INSERT of the  *)
(* form schema.sql uses, run on the connection getSQLiteConnection gives.  *)
(***************************************************************************)
\* website_id values the callers pass: a sample row's, and one no row has
SqlWebsiteIds == {1, 9}

\* dbManager.saveCloneAttempt({website_id, model_used, provider, ...}) of database.ts
SqlSaveCloneAttempt ==
    /\ CanCall
    /\ \E wid \in SqlWebsiteIds, a \in AttemptInputs :
         LET q == sqlSaveCloneAttempt(sqlite,
                      NewAttempt(wid, a.model_used, a.provider, a.generated_code,
                                 a.status, Undefined, a.generation_time_ms,
                                 a.code_size_bytes, a.component_count))
         IN  /\ sqlite' = q.db
             /\ ret' = [op |-> "saveCloneAttempt", arg |-> wid, id |-> q.result.id,
                        error |-> q.result.error]
    /\ callCount' = Started("saveCloneAttempt")
    /\ UNCHANGED <<fileVars, now, pc, loc, histVars, obs, duckVars, req, client>>

\* getSQLiteConnection().prepare('INSERT INTO clone_attempts (website_id,
\* model_used, style_selected, generated_code, status) VALUES (...)').run(...)
SqlInsertCloneAttempt ==
    /\ CanCall
    /\ \E wid \in SqlWebsiteIds, a \in AttemptInputs :
         LET r == insertCloneAttempt(getSQLiteConnection(sqlite),
                      [id |-> 0, website_id |-> wid, model_used |-> a.model_used,
                       generated_code |-> a.generated_code,
                       created_at |-> sqlDatetime(now), status |-> a.status,
                       error_message |-> Undefined])
         IN  /\ sqlite' = r.db
             /\ ret' = [op |-> "run", arg |-> wid, id |-> r.id, error |-> r.error]
    /\ callCount' = Started("run")
    /\ UNCHANGED <<fileVars, now, pc, loc, histVars, obs, duckVars, req, client>>

NextSql ==
    \/ SqlSaveWebsite
    \/ SqlSaveCloneAttempt
    \/ SqlInsertCloneAttempt
    \/ Tick

SpecSql == Init /\ [][NextSql]_vars

(***************************************************************************)
(* trackWebsiteClone of simple-database.ts, one call after the other (no   *)
(* other caller runs between its awaits), for the model identifiers of the *)
(* sample data and one without a separator.                                *)
(***************************************************************************)
TrackModelIds == {ModelOllama, ModelVllm, ModelCustom}

TrackWebsiteClone ==
    /\ CanCall
    /\ \E url \in Urls, modelUsed \in TrackModelIds, t \in TrackInputs :
         LET found == getWebsiteByUrl(url, FALSE)
             w == saveWebsite(NewWebsite(url, <<"Website: ", url>>,
                                         "Scraped for cloning"), FALSE, "ok")
             websiteId == IF found # 0 THEN found ELSE w.id
             provider == deriveProvider(modelUsed)
             f == saveCloneAttempt(
                      NewAttempt(websiteId, modelUsed, provider, t.generatedCode,
                                 t.status, Undefined, t.generationTimeMs,
                                 Undefined, Undefined),
                      FALSE, "ok")
         IN  /\ websitesFile' = IF found # 0 THEN websitesFile ELSE w.file
             /\ attemptsFile' = f.file
             /\ tracked' = tracked \cup {[attemptId |-> f.id, url |-> url]}
             /\ ret' = [op |-> "trackWebsiteClone", arg |-> websiteId, id |-> f.id,
                        error |-> "none"]
    /\ callCount' = Started("trackWebsiteClone")
    /\ UNCHANGED <<now, pc, loc, faults, issuedW, issuedA, sqlVars, duckVars, req, client>>

NextTrack ==
    \/ TrackWebsiteClone
    \/ Tick

SpecTrack == Init /\ [][NextTrack]_vars

(***************************************************************************)
(* trackWebsiteClone of simple-database.ts while file operations fail: one *)
(* call after the other, each read and write of the call failing or not.   *)
(***************************************************************************)
\* the first error, in program order, that leaves one of the file operations
FirstError(errors) ==
    LET thrown == {i \in 1..Len(errors) : errors[i] # "none"}
    IN  IF thrown = {} THEN "none"
        ELSE errors[CHOOSE i \in thrown : \A j \in thrown : i <= j]

TrackWhileFailing ==
    /\ CanCall
    /\ \E url \in Urls, t \in TrackInputs,
          rf1 \in FaultFlags, rf2 \in FaultFlags, wo2 \in WriteOutcomes,
          rf3 \in FaultFlags, wo3 \in WriteOutcomes :
         LET found == getWebsiteByUrl(url, rf1)
             w == saveWebsite(NewWebsite(url, <<"Website: ", url>>,
                                         "Scraped for cloning"), rf2, wo2)
             websiteId == IF found # 0 THEN found ELSE w.id
             f == saveCloneAttempt(
                      NewAttempt(websiteId, t.modelUsed, deriveProvider(t.modelUsed),
                                 t.generatedCode, t.status, Undefined,
                                 t.generationTimeMs, Undefined, Undefined),
                      rf3, wo3)
             failed == FaultCount(rf1, "ok") + FaultCount(rf2, wo2) + FaultCount(rf3, wo3)
             \* what leaves getWebsiteByUrl, saveWebsite and saveCloneAttempt
             e1 == errorLeaving(rf1)
             e2 == IF found # 0 THEN "none"
                   ELSE FirstError(<<errorLeaving(rf2), errorLeaving(wo2 # "ok")>>)
             e3 == FirstError(<<errorLeaving(rf3), errorLeaving(wo3 # "ok")>>)
             error == FirstError(<<e1, e2, e3>>)
         IN  /\ found # 0 => (~rf2 /\ wo2 = "ok")
             /\ faults + failed <= MaxFaults
             /\ faults' = faults + failed
             /\ websitesFile' = IF e1 = "none" /\ found = 0 /\ errorLeaving(rf2) = "none"
                                THEN w.file ELSE websitesFile
             /\ attemptsFile' = IF FirstError(<<e1, e2, errorLeaving(rf3)>>) = "none"
                                THEN f.file ELSE attemptsFile
             /\ ret' = [op |-> "trackWebsiteClone", arg |-> websiteId,
                        id |-> IF error = "none" THEN f.id ELSE 0, error |-> error]
    /\ callCount' = Started("trackWebsiteClone")
    /\ UNCHANGED <<now, pc, loc, issuedW, issuedA, tracked, sqlVars, duckVars, req, client>>

NextTrackFailing ==
    \/ TrackWhileFailing
    \/ Tick

SpecTrackFailing == Init /\ [][NextTrackFailing]_vars

(***************************************************************************)
(* POST /api/local-models-analytics, and the saveCloneAttempt calls that   *)
(* fill the store it reports on.                                           *)
(***************************************************************************)
\* what the callers of saveCloneAttempt pass here: the three attempts of
\* spec.md section 8 for one model, and two attempts of another model
StatsInputs ==
    { [model_used |-> ModelOllama, generated_code |-> SampleCode1,
       status |-> "success", generation_time_ms |-> 3000],
      [model_used |-> ModelOllama, generated_code |-> Marker,
       status |-> "success", generation_time_ms |-> 4000],
      [model_used |-> ModelOllama, generated_code |-> <<>>,
       status |-> "error", generation_time_ms |-> 5000],
      [model_used |-> ModelCustom, generated_code |-> SampleCode1,
       status |-> "success", generation_time_ms |-> 5000],
      [model_used |-> ModelCustom, generated_code |-> <<>>,
       status |-> "error", generation_time_ms |-> 3000] }

StatsSaveCloneAttempt ==
    /\ Len(readAttempts(FALSE)) < MaxAttempts
    /\ \E a \in StatsInputs :
         LET r == saveCloneAttempt(
                      NewAttempt(1, a.model_used, deriveProvider(a.model_used),
                                 a.generated_code, a.status, Undefined,
                                 a.generation_time_ms, Undefined, Undefined),
                      FALSE, "ok")
         IN  /\ attemptsFile' = r.file
             /\ ret' = [op |-> "saveCloneAttempt", arg |-> 1, id |-> r.id,
                        error |-> "none"]
    /\ UNCHANGED <<websitesFile, now, pc, loc, histVars, callCount, sqlVars, duckVars, req, client>>

\* the model_name of a request body; <<>> is the empty string
ModelNames == Models \cup {<<>>}

\* what request.json() meets: a JSON body, or a body that is not JSON
PostBodies == {"json", "unparsable"}

\* POST: request.json() throws into the catch (500); 400 without model_name;
\* else { success: true, data: stats }
PostModelStats ==
    /\ \E body \in PostBodies, model_name \in ModelNames, rf \in FaultFlags :
         IF body = "unparsable"
         THEN /\ model_name = <<>> /\ ~rf
              /\ req' = [NoRequest EXCEPT !.action = "modelStats", !.pc = "failed",
                                          !.body = body, !.status = 500]
              /\ UNCHANGED faults
         ELSE IF model_name = <<>>
         THEN /\ ~rf
              /\ req' = [NoRequest EXCEPT !.action = "modelStats", !.pc = "rejected",
                                          !.body = body, !.status = 400]
              /\ UNCHANGED faults
         ELSE /\ faults + FaultCount(rf, "ok") <= MaxFaults
              /\ faults' = faults + FaultCount(rf, "ok")
              /\ req' = [NoRequest EXCEPT
                            !.action = "modelStats", !.pc = "responded",
                            !.body = body, !.success = TRUE, !.status = 200,
                            !.model_name = model_name,
                            !.data = getModelStats(model_name, rf),
                            !.seen = {StoreContents(websitesFile, attemptsFile)}]
    /\ UNCHANGED <<fileVars, now, pc, loc, ret, issuedW, issuedA, tracked, callCount,
                   sqlVars, duckVars, client>>

NextStats ==
    \/ StatsSaveCloneAttempt
    \/ PostModelStats

SpecStats == Init /\ [][NextStats]_vars

(***************************************************************************)
(* The two handlers of the route, a request at a time (no other caller     *)
(* runs between the awaits of GET ?action=stats), file operations failing  *)
(* or not.                                                                 *)
(***************************************************************************)
\* searchParams.get('action'): the three cases of the switch, another value,
\* and no parameter at all
GetActions == {"init", "stats", "export", "other", "missing"}

GetRequest ==
    /\ \E action \in GetActions, rf \in FaultFlags, wo \in WriteOutcomes :
         LET failed == CASE action = "init" -> FaultCount(FALSE, wo)
                         [] action \in {"stats", "export"} -> FaultCount(rf, "ok")
                         [] OTHER -> 0
         IN  /\ action = "init" \/ wo = "ok"
             /\ action \in {"stats", "export"} \/ ~rf
             /\ faults + failed <= MaxFaults
             /\ faults' = faults + failed
             /\ websitesFile' = IF action = "init" THEN writeWebsites(sampleWebsites, wo)
                                ELSE websitesFile
             /\ attemptsFile' = IF action = "init" THEN writeAttempts(sampleAttempts, wo)
                                ELSE attemptsFile
             /\ req' =
                  CASE action = "init" ->
                         [NoRequest EXCEPT !.action = action, !.pc = "responded",
                                           !.success = TRUE, !.status = 200]
                    [] action = "stats" ->
                         [NoRequest EXCEPT
                             !.action = action, !.pc = "responded",
                             !.success = TRUE, !.status = 200,
                             !.models = getModelPerformanceSummary(rf),
                             !.providers = getProviderComparison(rf),
                             !.websites = FirstTen(getAllWebsites(rf)),
                             !.totalWebsites = Len(getAllWebsites(rf)),
                             !.seen = {StoreContents(websitesFile, attemptsFile)}]
                    [] action = "export" ->
                         [NoRequest EXCEPT
                             !.action = action, !.pc = "responded",
                             !.success = TRUE, !.status = 200,
                             !.export = exportData(rf, rf),
                             !.seen = {StoreContents(websitesFile, attemptsFile)}]
                    [] OTHER ->
                         [NoRequest EXCEPT !.action = action, !.pc = "rejected",
                                           !.status = 400]
    /\ UNCHANGED <<now, pc, loc, ret, issuedW, issuedA, tracked, callCount,
                   sqlVars, duckVars, client>>

NextEnvelope ==
    \/ StatsSaveCloneAttempt
    \/ GetRequest
    \/ PostModelStats

SpecEnvelope == Init /\ [][NextEnvelope]_vars

(***************************************************************************)
(* A caller of the file-backed store that writes and then asks: every call *)
(* is one step (none of these methods awaits), no file operation fails.    *)
(* GET ?action=init of the route runs beside it.                           *)
(***************************************************************************)
\* the urls the caller passes; '' is the empty url
ClientUrls == Urls \cup {""}

Last(rows) == rows[Len(rows)]

CanWrite == Len(client.written.websites) + Len(client.written.attempts) < MaxWrites

ClientSaveWebsite ==
    /\ CanWrite
    /\ \E url \in ClientUrls :
         LET r == saveWebsite(NewWebsite(url, <<"title">>, "description"), FALSE, "ok")
         IN  /\ websitesFile' = r.file
             /\ ret' = [op |-> "saveWebsite", arg |-> 0, id |-> r.id, error |-> "none"]
             /\ client' = [NoClient EXCEPT
                              !.written = [client.written EXCEPT
                                              !.websites = Append(@, Last(r.file.data))]]
    /\ UNCHANGED <<attemptsFile, now, pc, loc, histVars, callCount, sqlVars, duckVars, req>>

ClientSaveCloneAttempt ==
    /\ CanWrite
    /\ \E wid \in WebsiteIds, a \in AttemptInputs :
         LET r == saveCloneAttempt(
                      NewAttempt(wid, a.model_used, a.provider, a.generated_code,
                                 a.status, Undefined, a.generation_time_ms,
                                 a.code_size_bytes, a.component_count), FALSE, "ok")
         IN  /\ attemptsFile' = r.file
             /\ ret' = [op |-> "saveCloneAttempt", arg |-> wid, id |-> r.id,
                        error |-> "none"]
             /\ client' = [NoClient EXCEPT
                              !.written = [client.written EXCEPT
                                              !.attempts = Append(@, Last(r.file.data))]]
    /\ UNCHANGED <<websitesFile, now, pc, loc, histVars, callCount, sqlVars, duckVars, req>>

\* the caller's query and its answer
Asked(op, url, id, model, answer) ==
    [client EXCEPT !.op = op, !.url = url, !.id = id, !.model = model,
                   !.answer = answer]

ClientGetWebsiteByUrl ==
    /\ \E url \in ClientUrls :
         client' = Asked("getWebsiteByUrl", url, 0, <<>>, findWebsiteByUrl(url, FALSE))
    /\ UNCHANGED <<fileVars, now, pc, loc, ret, histVars, callCount, sqlVars, duckVars, req>>

ClientExportData ==
    /\ client' = Asked("exportData", "", 0, <<>>, <<exportData(FALSE, FALSE)>>)
    /\ UNCHANGED <<fileVars, now, pc, loc, ret, histVars, callCount, sqlVars, duckVars, req>>

NextClient ==
    \/ ClientSaveWebsite
    \/ ClientSaveCloneAttempt
    \/ ClientGetWebsiteByUrl
    \/ ClientExportData
    \/ GetInit

SpecClient == Init /\ [][NextClient]_vars

(***************************************************************************)
(* The same caller writing while the clock runs, and asking for listings.  *)
(***************************************************************************)
ClientGetAllWebsites ==
    /\ client' = Asked("getAllWebsites", "", 0, <<>>, <<getAllWebsites(FALSE)>>)
    /\ UNCHANGED <<fileVars, now, pc, loc, ret, histVars, callCount, sqlVars, duckVars, req>>

ClientGetCloneAttemptsByWebsite ==
    /\ \E id \in WebsiteIds :
         client' = Asked("getCloneAttemptsByWebsite", "", id, <<>>,
                         <<getCloneAttemptsByWebsite(id, FALSE)>>)
    /\ UNCHANGED <<fileVars, now, pc, loc, ret, histVars, callCount, sqlVars, duckVars, req>>

ClientGetCloneAttemptsByModel ==
    /\ \E model \in Models :
         client' = Asked("getCloneAttemptsByModel", "", 0, model,
                         <<getCloneAttemptsByModel(model, FALSE)>>)
    /\ UNCHANGED <<fileVars, now, pc, loc, ret, histVars, callCount, sqlVars, duckVars, req>>

NextList ==
    \/ ClientSaveWebsite
    \/ ClientSaveCloneAttempt
    \/ ClientGetAllWebsites
    \/ ClientGetCloneAttemptsByWebsite
    \/ ClientGetCloneAttemptsByModel
    \/ Tick

SpecList == Init /\ [][NextList]_vars

(***************************************************************************)
(* The two aggregates that are lists, asked of the store that               *)
(* saveCloneAttempt calls have filled: getProviderComparison of both       *)
(* backends, getModelPerformanceSummary of the file-backed one.            *)
(***************************************************************************)
EqGetProviderComparison ==
    /\ CanCall
    /\ LET q == duckGetProviderComparison(duck)
       IN  /\ duck' = q.duck
           /\ obs' = [file |-> FileResult(0, getProviderComparison(FALSE)),
                      sql |-> q.result]
           /\ ret' = [op |-> "getProviderComparison", arg |-> 0, id |-> 0,
                      error |-> q.result.error]
    /\ callCount' = Started("run")
    /\ UNCHANGED <<fileVars, now, pc, loc, histVars, sqlite, sync, req, client>>

ClientGetModelPerformanceSummary ==
    /\ client' = Asked("getModelPerformanceSummary", "", 0, <<>>,
                       <<getModelPerformanceSummary(FALSE)>>)
    /\ ret' = [op |-> "getModelPerformanceSummary", arg |-> 0, id |-> 0,
               error |-> "none"]
    /\ UNCHANGED <<fileVars, now, pc, loc, histVars, callCount, sqlVars, duckVars, req>>

NextAggregates ==
    \/ StatsSaveCloneAttempt
    \/ EqGetProviderComparison
    \/ ClientGetModelPerformanceSummary

SpecAggregates == Init /\ [][NextAggregates]_vars

(***************************************************************************)
(* The caller storing attempts whose created_at it chooses: the store keeps *)
(* the created_at it is passed.  Then it asks for the statistics of a      *)
(* model and for the summary.  No file operation fails.                    *)
(***************************************************************************)
ClientSaveDatedAttempt ==
    /\ CanWrite
    /\ \E a \in AttemptInputs, t \in 0..now :
         LET attempt == [NewAttempt(1, a.model_used, a.provider, a.generated_code,
                                    a.status, Undefined, a.generation_time_ms,
                                    a.code_size_bytes, a.component_count)
                            EXCEPT !.created_at = toISOString(t)]
             r == saveCloneAttempt(attempt, FALSE, "ok")
         IN  /\ attemptsFile' = r.file
             /\ ret' = [op |-> "saveCloneAttempt", arg |-> 1, id |-> r.id,
                        error |-> "none"]
             /\ client' = [NoClient EXCEPT
                              !.written = [client.written EXCEPT
                                              !.attempts = Append(@, Last(r.file.data))]]
    /\ UNCHANGED <<websitesFile, now, pc, loc, histVars, callCount, sqlVars, duckVars, req>>

ClientGetModelStats ==
    /\ \E model \in Models :
         client' = Asked("getModelStats", "", 0, model, getModelStats(model, FALSE))
    /\ UNCHANGED <<fileVars, now, pc, loc, ret, histVars, callCount, sqlVars, duckVars, req>>

NextLastUsed ==
    \/ ClientSaveDatedAttempt
    \/ ClientGetModelStats
    \/ ClientGetModelPerformanceSummary
    \/ Tick

SpecLastUsed == Init /\ [][NextLastUsed]_vars

(***************************************************************************)
(* The GET handler over a store that has grown past ten Website records:   *)
(* other callers save websites while the clock runs, between the awaits of *)
(* a request too.  No file operation fails.                                *)
(***************************************************************************)
\* another caller's dbManager.saveWebsite(...), as long as the store is small
RecentSaveWebsite ==
    /\ Len(readWebsites(FALSE)) < MaxWebsites
    /\ websitesFile' =
           saveWebsite(NewWebsite(UrlOther, <<"title">>, "description"), FALSE, "ok").file
    /\ req' = Seen(websitesFile', attemptsFile)
    /\ UNCHANGED <<attemptsFile, now, pc, loc, ret, histVars, callCount, sqlVars,
                   duckVars, client>>

\* another caller's dbManager.saveCloneAttempt(...) into the empty collection
RecentSaveCloneAttempt ==
    /\ readAttempts(FALSE) = <<>>
    /\ attemptsFile' =
           saveCloneAttempt(
               NewAttempt(1, ModelOllama, ProviderOllama, SampleCode1, "success",
                          Undefined, 3000, Undefined, Undefined), FALSE, "ok").file
    /\ req' = Seen(websitesFile, attemptsFile')
    /\ UNCHANGED <<websitesFile, now, pc, loc, ret, histVars, callCount, sqlVars,
                   duckVars, client>>

NextRecent ==
    \/ RecentSaveWebsite
    \/ RecentSaveCloneAttempt
    \/ Tick
    \/ GetStatsModels
    \/ GetStatsProviders
    \/ GetStatsWebsites
    \/ GetExport

SpecRecent == Init /\ [][NextRecent]_vars

(***************************************************************************)
(* The caller storing attempts of either model under either provider,      *)
(* successful or not, and asking for the two aggregate lists.  No file     *)
(* operation fails.                                                        *)
(***************************************************************************)
ClientSaveAnyAttempt ==
    /\ CanWrite
    /\ \E model \in Models, provider \in {ProviderOllama, ProviderVllm},
          status \in {"success", "error"} :
         LET r == saveCloneAttempt(
                      NewAttempt(1, model, provider, SampleCode1, status, Undefined,
                                 3000, Undefined, Undefined), FALSE, "ok")
         IN  /\ attemptsFile' = r.file
             /\ ret' = [op |-> "saveCloneAttempt", arg |-> 1, id |-> r.id,
                        error |-> "none"]
             /\ client' = [NoClient EXCEPT
                              !.written = [client.written EXCEPT
                                              !.attempts = Append(@, Last(r.file.data))]]
    /\ UNCHANGED <<websitesFile, now, pc, loc, histVars, callCount, sqlVars, duckVars, req>>

ClientGetProviderComparison ==
    /\ client' = Asked("getProviderComparison", "", 0, <<>>,
                       <<getProviderComparison(FALSE)>>)
    /\ ret' = [op |-> "getProviderComparison", arg |-> 0, id |-> 0, error |-> "none"]
    /\ UNCHANGED <<fileVars, now, pc, loc, histVars, callCount, sqlVars, duckVars, req>>

NextPartition ==
    \/ ClientSaveAnyAttempt
    \/ ClientGetModelPerformanceSummary
    \/ ClientGetProviderComparison

SpecPartition == Init /\ [][NextPartition]_vars

(***************************************************************************)
(* DatabaseManager closed and opened again: close() forgets both           *)
(* connections, the database files stay; the next getSQLiteConnection()    *)
(* runs schema.sql on the file again.                                      *)
(***************************************************************************)
\* dbManager.close()
close ==
    /\ sqlite.open \/ duck.connected
    /\ sqlite' = [sqlite EXCEPT !.open = FALSE]
    /\ duck' = [duck EXCEPT !.connected = FALSE]
    /\ UNCHANGED <<fileVars, now, pc, loc, ret, histVars, callCount, obs, sync, req, client>>

\* dbManager.getSQLiteConnection() while no connection is held, as long as
\* the clone_attempts table is small
ReopenSQLite ==
    /\ ~sqlite.open
    /\ Len(sqlite.attempts) < MaxAttempts
    /\ sqlite' = getSQLiteConnection(sqlite)
    /\ UNCHANGED <<fileVars, now, pc, loc, ret, histVars, callCount, obs, duckVars, req, client>>

NextReopen ==
    \/ close
    \/ ReopenSQLite
    \/ SqlSaveWebsite
    \/ TimePasses

SpecReopen == Init /\ [][NextReopen]_vars

(***************************************************************************)
(* getDuckDBConnection called by a second caller (any DatabaseManager      *)
(* analytics method) while a syncToAnalytics call may be inside its own    *)
(* getDuckDBConnection, one schema statement per await.                    *)
(***************************************************************************)
\* await this.getDuckDBConnection() of another caller: this.duckDbConnection
\* is returned as it is when it is set; otherwise it is set, initializeDuckDB
\* is awaited (no other call being under way then) and its error is thrown
GetDuckDBConnection ==
    /\ CanCall
    /\ LET opened == IF duck.connected THEN [duck |-> duck, error |-> "none"]
                     ELSE duckInitializeFrom([duck EXCEPT !.connected = TRUE], 1)
       IN  /\ duck' = opened.duck
           /\ ret' = [op |-> "getDuckDBConnection", arg |-> 0, id |-> 0,
                      error |-> opened.error]
    /\ callCount' = Started("run")
    /\ UNCHANGED <<fileVars, now, pc, loc, histVars, sqlVars, sync, req, client>>

NextConnect ==
    \/ SqlSaveWebsite
    \/ SyncStart
    \/ SyncInitialize
    \/ SyncRead
    \/ SyncCopy
    \/ SyncReturn
    \/ TimePasses
    \/ GetDuckDBConnection

SpecConnect == Init /\ [][NextConnect]_vars

(***************************************************************************)
(* Properties.                                                             *)
(***************************************************************************)
StoredWebsites == IF websitesFile.ok THEN Range(websitesFile.data) ELSE {}
StoredAttempts == IF attemptsFile.ok THEN Range(attemptsFile.data) ELSE {}
IdsOf(rows) == {r.id : r \in rows}

OnlyDirectCreates ==
    /\ faults = 0
    /\ callCount["importSampleData"] = 0
    /\ callCount["trackWebsiteClone"] = 0

\* C1: N concurrent saveWebsite calls, or N concurrent saveCloneAttempt calls,
\* on an empty collection leave exactly N records whose identifiers are 1..N,
\* whatever the order in which the calls run (no file operation failing).
C1_ConcurrentCreatesContiguous ==
    OnlyDirectCreates =>
        /\ Len(websitesFile.data) = callCount["saveWebsite"]
        /\ IdsOf(StoredWebsites) = 1..callCount["saveWebsite"]
        /\ Len(attemptsFile.data) = callCount["saveCloneAttempt"]
        /\ IdsOf(StoredAttempts) = 1..callCount["saveCloneAttempt"]

\* C1 witness: two saveWebsite calls (or two saveCloneAttempt calls) have run
\* against the empty store.
C1_Witness ==
    /\ OnlyDirectCreates
    /\ \/ callCount["saveWebsite"] >= 2 /\ Len(websitesFile.data) >= 2
       \/ callCount["saveCloneAttempt"] >= 2 /\ Len(attemptsFile.data) >= 2

\* C2: no two stored Website records have the same url.
C2_UrlUnique ==
    \A i, j \in 1..Len(websitesFile.data) :
        websitesFile.data[i].url = websitesFile.data[j].url => i = j

\* C3: once concurrent trackWebsiteClone calls have all returned (nothing else
\* having been called, no file operation failing), each url they were given
\* has exactly one Website and every attempt they saved references it.
C3_TrackFindsOrCreatesOnce ==
    ( /\ faults = 0
      /\ TotalCalls = callCount["trackWebsiteClone"]
      /\ \A p \in Procs : pc[p] = "idle" ) =>
        \A t \in tracked :
            LET sites == {w \in StoredWebsites : w.url = t.url}
            IN  /\ Cardinality(sites) = 1
                /\ \A a \in StoredAttempts :
                       a.id = t.attemptId => a.website_id \in IdsOf(sites)

\* C4: every stored CloneAttempt references a stored Website.
C4_ReferentialIntegrity ==
    \A a \in StoredAttempts : a.website_id \in IdsOf(StoredWebsites)

\* C5: saveCloneAttempt with a website_id that no stored Website has fails
\* with ReferentialError, returns no identifier and leaves the attempts alone.
C5_UnknownWebsiteRejected ==
    [][ ( /\ callCount'["saveCloneAttempt"] = callCount["saveCloneAttempt"] + 1
          /\ ret'.arg \notin IdsOf(StoredWebsites) ) =>
            ( /\ ret'.error = "ReferentialError"
              /\ ret'.id = 0
              /\ attemptsFile' = attemptsFile ) ]_vars

\* C6: an identifier assigned to one Website (CloneAttempt) is never assigned
\* to another one (stated for the runs in which no file operation fails, so
\* that a reuse is the store's own doing).
C6_IdentifiersNeverReused ==
    faults = 0 =>
        /\ \A x, y \in issuedW : x.id = y.id => x.origin = y.origin
        /\ \A x, y \in issuedA : x.id = y.id => x.origin = y.origin

\* C7: every stored CloneAttempt carries the size, the component count and the
\* provider derived from its generated_code and model_used.
C7_DerivedFieldsRecomputed ==
    \A a \in StoredAttempts :
        /\ a.code_size_bytes = Len(a.generated_code)
        /\ a.component_count = componentCount(a.generated_code)
        /\ a.provider = deriveProvider(a.model_used)

\* C8: saveWebsite and saveCloneAttempt return an identifier only when the
\* record with that identifier is in the file.
C8_ReturnsOnlyAfterPersisting ==
    [][ /\ ( /\ callCount'["saveWebsite"] = callCount["saveWebsite"] + 1
             /\ ret'.error = "none" ) =>
               (websitesFile'.ok /\ \E i \in 1..Len(websitesFile'.data) :
                                        websitesFile'.data[i].id = ret'.id)
        /\ ( /\ callCount'["saveCloneAttempt"] = callCount["saveCloneAttempt"] + 1
             /\ ret'.error = "none" ) =>
               (attemptsFile'.ok /\ \E i \in 1..Len(attemptsFile'.data) :
                                        attemptsFile'.data[i].id = ret'.id) ]_vars

\* C9: a step in which a read or a write of a file fails loses no record that
\* was stored before it.
C9_FailureKeepsStoredRecords ==
    [][ faults' > faults =>
            /\ StoredWebsites \subseteq
                   (IF websitesFile'.ok THEN Range(websitesFile'.data) ELSE {})
            /\ StoredAttempts \subseteq
                   (IF attemptsFile'.ok THEN Range(attemptsFile'.data) ELSE {}) ]_vars

\* C10: the same call returns the same result from the file-backed store and
\* from the SQLite store.
C10_BackendsAgree == obs.file = obs.sql

\* a call of syncToAnalytics has ended, and since it began the clock has not
\* advanced and no row has been added to the primary
SyncSettled == sync.pc \in {"resolved", "rejected"}
SameWindow == now = sync.startedAt /\ Len(sqlite.websites) = sync.primarySize

\* C11: a second syncToAnalytics call, made after a first one over the same
\* primary rows at the same clock, leaves the analytical copy as the first
\* call left it, and with one row per identifier.
C11_SyncTwiceSameAsOnce ==
    (SyncSettled /\ sync.again /\ SameWindow) =>
        /\ AnalyticalRows = sync.before
        /\ Cardinality(IdsOf(Range(duck.websites))) = Len(duck.websites)
        /\ Cardinality(IdsOf(Range(duck.attempts))) = Len(duck.attempts)

\* a primary row as the analytical tables hold it (TIMESTAMP columns)
AnalyticalWebsite(w) == [w EXCEPT !.scraped_at = getTime(@)]

SameAttempt(d, a) ==
    /\ d.id = a.id
    /\ d.website_id = a.website_id
    /\ d.model_used = a.model_used
    /\ d.generated_code = a.generated_code
    /\ d.status = a.status
    /\ d.created_at = getTime(a.created_at)

PrimaryRow(key) ==
    IF key[1] = "website"
    THEN CHOOSE w \in Range(sqlite.websites) : w.id = key[2]
    ELSE CHOOSE a \in Range(sqlite.attempts) : a.id = key[2]

CreatedAt(key) ==
    IF key[1] = "website" THEN getTime(PrimaryRow(key).scraped_at)
    ELSE getTime(PrimaryRow(key).created_at)

\* C12: when a syncToAnalytics call has resolved, every primary row created
\* less than seven days before it is in the analytical copy, once and with
\* the primary's values, and the call has copied no row created more than
\* seven days before it.
C12_SyncCopiesTheWindow ==
    (sync.pc = "resolved" /\ SameWindow) =>
        /\ \A w \in Range(sqlite.websites) :
               getTime(w.scraped_at) > now - WindowTicks =>
                   /\ Cardinality({i \in 1..Len(duck.websites) :
                                      duck.websites[i].id = w.id}) = 1
                   /\ AnalyticalWebsite(w) \in Range(duck.websites)
        /\ \A a \in Range(sqlite.attempts) :
               getTime(a.created_at) > now - WindowTicks =>
                   /\ Cardinality({i \in 1..Len(duck.attempts) :
                                      duck.attempts[i].id = a.id}) = 1
                   /\ \E d \in Range(duck.attempts) : SameAttempt(d, a)
        /\ \A key \in sync.written : CreatedAt(key) >= now - WindowTicks

\* every row of the primary is in the analytical copy with the same values
PrimaryCopied ==
    /\ \A w \in Range(sqlite.websites) : AnalyticalWebsite(w) \in Range(duck.websites)
    /\ \A a \in Range(sqlite.attempts) : \E d \in Range(duck.attempts) : SameAttempt(d, a)

\* some row of the primary is seven days old or older
SomeRowLeftTheWindow ==
    \/ \E w \in Range(sqlite.websites) : getTime(w.scraped_at) <= now - WindowTicks
    \/ \E a \in Range(sqlite.attempts) : getTime(a.created_at) <= now - WindowTicks

\* C13: with syncToAnalytics called again and again, the rows of the primary
\* get into the analytical copy with their values (at the latest when the
\* first of them is seven days old).
C13_EventuallyConsistent == sqlite.open ~> (PrimaryCopied \/ SomeRowLeftTheWindow)

\* C14: what a stats response or an export response carries is what the
\* operations give on the contents the two files had at one moment of the
\* request.
C14_ReadsSeeOneSnapshot ==
    req.pc = "responded" =>
        /\ req.action = "stats" =>
               \E st \in req.seen :
                   /\ req.models = modelPerformanceSummaryOf(st.attempts)
                   /\ req.providers = providerComparisonOf(st.attempts)
                   /\ req.websites = FirstTen(allWebsitesOf(st.websites))
                   /\ req.totalWebsites = Len(st.websites)
        /\ req.action = "export" => req.export \in req.seen

\* the rows a step has added to a table get identifiers above every
\* identifier the table has used, each above the one before
FreshIds(old, seq, new) ==
    \A i \in (Len(old) + 1)..Len(new) :
        /\ new[i].id > seq
        /\ \A j \in 1..(i - 1) : new[i].id > new[j].id

C16_WebsitesNeverChange ==
    [][ faults' = 0 => \A w \in StoredWebsites : w \in Range(websitesFile'.data) ]_vars

\* provider is what precedes the first '/' of modelId, or 'unknown' when
\* modelId has no '/'
IsProviderOf(provider, modelId) ==
    IF \A i \in 1..Len(modelId) : modelId[i] # "/"
    THEN provider = Unknown
    ELSE /\ Len(provider) < Len(modelId)
         /\ \A i \in 1..Len(provider) : provider[i] = modelId[i] /\ provider[i] # "/"
         /\ modelId[Len(provider) + 1] = "/"

\* C17: the attempt that trackWebsiteClone stores has as provider what
\* precedes the first '/' of its model identifier, and 'unknown' when the
\* identifier has no '/'.
C17_ProviderDerivedFromModelId ==
    \A t \in tracked : \A a \in StoredAttempts :
        a.id = t.attemptId => IsProviderOf(a.provider, a.model_used)

\* C17 witness: trackWebsiteClone has stored an attempt of
\* 'vllm/meta-llama/CodeLlama-7b-Instruct-hf' with provider 'vllm' and one of
\* 'customModel' with provider 'unknown'.
C17_Witness ==
    /\ \E t \in tracked : \E a \in StoredAttempts :
           a.id = t.attemptId /\ a.model_used = ModelVllm /\ a.provider = ProviderVllm
    /\ \E t \in tracked : \E a \in StoredAttempts :
           a.id = t.attemptId /\ a.model_used = ModelCustom /\ a.provider = Unknown

\* the attempts of a store whose model_used is modelId, as positions
AttemptsOf(attempts, modelId) ==
    {i \in 1..Len(attempts) : attempts[i].model_used = modelId}

SuccessesOf(attempts, modelId) ==
    {i \in AttemptsOf(attempts, modelId) : attempts[i].status = "success"}

DurationSum(attempts, modelId) ==
    SumOver([i \in 1..Len(attempts) |-> attempts[i].generation_time_ms],
            AttemptsOf(attempts, modelId))

\* the fraction q is the number a / b
IsQuotient(q, a, b) == q.den > 0 /\ q.num * b = a * q.den

\* the store the answered POST request has read
Answered == req.action = "modelStats" /\ req.pc = "responded"

\* C18: with no file operation failing, the statistics of a model that has
\* k >= 1 attempts in the store are total_attempts = k, success_rate =
\* 100 * successes / k and avg_generation_time_ms = sum of durations / k over
\* the attempts of exactly that model; durations 3000, 4000, 5000 with
\* success, success, error give 3, 66.67 (within 0.01) and 4000.
C18_ModelStatsNumbers ==
    (Answered /\ faults = 0) =>
        \A st \in req.seen :
            LET mine == AttemptsOf(st.attempts, req.model_name)
                k == Cardinality(mine)
                successes == Cardinality(SuccessesOf(st.attempts, req.model_name))
                total == DurationSum(st.attempts, req.model_name)
            IN  k >= 1 =>
                  /\ req.data # <<>>
                  /\ req.data[1].total_attempts = k
                  /\ IsQuotient(req.data[1].success_rate, 100 * successes, k)
                  /\ IsQuotient(req.data[1].avg_generation_time_ms, total, k)
                  /\ (k = 3 /\ successes = 2 /\ total = 12000) =>
                        /\ req.data[1].total_attempts = 3
                        /\ 6666 * req.data[1].success_rate.den
                               <= 100 * req.data[1].success_rate.num
                        /\ 100 * req.data[1].success_rate.num
                               <= 6668 * req.data[1].success_rate.den
                        /\ req.data[1].avg_generation_time_ms = [num |-> 4000, den |-> 1]

\* C18 witness: the statistics of 'ollama/llama3.2:7b' were returned from a
\* store holding its attempts of 3000, 4000 and 5000 ms (success, success,
\* error) next to an attempt of another model.
C18_Witness ==
    /\ Answered /\ faults = 0
    /\ req.model_name = ModelOllama
    /\ \E st \in req.seen :
         /\ Cardinality(AttemptsOf(st.attempts, ModelOllama)) = 3
         /\ Cardinality(SuccessesOf(st.attempts, ModelOllama)) = 2
         /\ DurationSum(st.attempts, ModelOllama) = 12000
         /\ AttemptsOf(st.attempts, ModelCustom) # {}
    /\ req.data # <<>>
    /\ req.data[1].total_attempts = 3

\* C19: the answer is null exactly when the store holds no attempt of the
\* model asked for, and a Stats value when it holds at least one.
C19_NullExactlyWhenNoAttempt ==
    Answered =>
        \A st \in req.seen :
            (req.data = <<>>) <=> (AttemptsOf(st.attempts, req.model_name) = {})

\* a fraction that is a number (not NaN)
IsNumber(q) == q.den > 0

\* C20: whenever statistics are returned for a model that has attempts, the
\* mean size is a number, also when none of the attempts is successful; it
\* is the sum of the sizes of the successful attempts over their count.
C20_MeanSizeIsANumber ==
    (Answered /\ faults = 0 /\ req.data # <<>>) =>
        /\ IsNumber(req.data[1].avg_code_size_bytes)
        /\ IsNumber(req.data[1].avg_generation_time_ms)
        /\ \A st \in req.seen :
               LET successes == SuccessesOf(st.attempts, req.model_name)
                   sizes == SumOver([i \in 1..Len(st.attempts) |->
                                         st.attempts[i].code_size_bytes], successes)
               IN  successes # {} =>
                       IsQuotient(req.data[1].avg_code_size_bytes, sizes,
                                  Cardinality(successes))

\* the first record the caller wrote with this url, if any
FirstWritten(url) ==
    LET w == client.written.websites
        hits == {i \in 1..Len(w) : w[i].url = url}
    IN  IF hits = {} THEN <<>> ELSE <<w[CHOOSE i \in hits : \A j \in hits : i <= j]>>

\* C21: getWebsiteByUrl(U) after a successful saveWebsite of the non-empty
\* url U returns a Website with url U and the id that the first saveWebsite
\* of U returned.
C21_LookupFindsWhatWasCreated ==
    (client.op = "getWebsiteByUrl" /\ client.url # "" /\ FirstWritten(client.url) # <<>>) =>
        /\ client.answer # <<>>
        /\ client.answer[1].url = client.url
        /\ client.answer[1].id = FirstWritten(client.url)[1].id

\* C22: no stored Website has the empty url.
C22_NoEmptyUrlStored ==
    \A w \in StoredWebsites : w.url # ""

SyncInProgress == sync.pc = "copy"

\* the call was rejected while it copied the rows it had read
SyncFailedInCopy ==
    sync.pc = "rejected" /\ (sync.websites # <<>> \/ sync.attempts # <<>>)

\* C24: while a sync call is copying, saveWebsite on the primary can run, and
\* the call does not end in an error: it copies the rows it has read.
C24_SyncToleratesWriters ==
    /\ (SyncInProgress /\ CanCall) => ENABLED SqlSaveWebsite
    /\ ~SyncFailedInCopy

\* C25: a POST without model_name is answered 400 with success false and
\* without any read of the store, and a POST for a model that has no attempt
\* is answered 'not found', not with a success envelope.
C25_PostRejectsAndReportsNotFound ==
    /\ (req.action = "modelStats" /\ req.body = "json" /\ req.model_name = <<>>) =>
           /\ req.pc = "rejected" /\ ~req.success /\ req.status = 400
           /\ req.seen = {}
    /\ Answered =>
           \A st \in req.seen :
               AttemptsOf(st.attempts, req.model_name) = {} => ~req.success

\* the request just answered was malformed
Malformed ==
    \/ req.action \in {"other", "missing"}
    \/ req.action = "modelStats" /\ (req.body = "unparsable" \/ req.model_name = <<>>)

\* C26: a malformed request is answered success false with status 400, and a
\* request during which a file operation of the store fails is answered
\* success false with status 500.
C26_EnvelopeStatus ==
    [][ (req' # req /\ req'.pc \in {"responded", "rejected", "failed"}) =>
            /\ Malformed' => (~req'.success /\ req'.status = 400)
            /\ faults' > faults => (~req'.success /\ req'.status = 500) ]_vars

\* C27: a trackWebsiteClone call of the file-backed store returns normally,
\* with an identifier, also when reads or writes of the files fail inside it.
C27_TrackingNeverThrows ==
    ret.op = "trackWebsiteClone" => (ret.error = "none" /\ ret.id >= 1)

\* C27 witness: the only trackWebsiteClone call so far has returned normally
\* although a file operation failed inside it.
C27_Witness ==
    /\ callCount["trackWebsiteClone"] = 1 /\ faults >= 1
    /\ ret.op = "trackWebsiteClone" /\ ret.error = "none" /\ ret.id >= 1

\* new is old with exactly one record appended
OneAppended(old, new) ==
    /\ new.ok /\ old.ok
    /\ Len(new.data) = Len(old.data) + 1
    /\ SubSeq(new.data, 1, Len(old.data)) = old.data

\* C28: a trackWebsiteClone call in which no file operation fails writes once
\* or twice.  When its lookup found a Website it appends one CloneAttempt
\* and leaves the websites alone; when it found none it appends one Website
\* and then one CloneAttempt that references it.  No other step of the call
\* writes, and the records stored before stay as they are.
C28_TrackAppendsOnly ==
    [][ faults' = 0 =>
          \A p \in Procs :
            /\ (pc[p] = "idle" /\ pc'[p] = "afterLookup") =>
                   (websitesFile' = websitesFile /\ attemptsFile' = attemptsFile)
            /\ (pc[p] = "afterLookup" /\ pc'[p] = "afterSaveWebsite") =>
                   /\ loc[p].website = 0
                   /\ OneAppended(websitesFile, websitesFile')
                   /\ Last(websitesFile'.data).url = loc[p].url
                   /\ Last(websitesFile'.data).id = loc'[p].website
                   /\ attemptsFile' = attemptsFile
            /\ (pc[p] = "afterLookup" /\ pc'[p] = "afterSaveAttempt") =>
                   loc[p].website # 0
            /\ (pc[p] # "afterSaveAttempt" /\ pc'[p] = "afterSaveAttempt") =>
                   /\ websitesFile' = websitesFile
                   /\ OneAppended(attemptsFile, attemptsFile')
                   /\ Last(attemptsFile'.data).website_id = loc[p].website
                   /\ Last(attemptsFile'.data).id = loc'[p].attemptId
            /\ (pc[p] = "afterSaveAttempt" /\ pc'[p] = "idle") =>
                   (websitesFile' = websitesFile /\ attemptsFile' = attemptsFile) ]_vars

\* C28 witness: a call that found no Website has appended a Website and a
\* CloneAttempt that references it, beside a Website stored before.
C28_Witness ==
    /\ faults = 0
    /\ \E p \in Procs :
         /\ pc[p] = "afterSaveAttempt"
         /\ \E w \in StoredWebsites : w.id = loc[p].website /\ w.url = loc[p].url
         /\ \E a \in StoredAttempts :
                a.id = loc[p].attemptId /\ a.website_id = loc[p].website
         /\ Len(websitesFile.data) = 2

\* rows holds each of the records once and nothing else
ExactlyThese(rows, records) ==
    Range(rows) = records /\ Len(rows) = Cardinality(records)

\* the timestamps of rows never increase from one row to the next
NewestFirst(rows, field) ==
    \A i \in 1..(Len(rows) - 1) : getTime(rows[i][field]) >= getTime(rows[i + 1][field])

\* C29: getAllWebsites returns every stored Website, newest scraped_at first;
\* getCloneAttemptsByWebsite(id) and getCloneAttemptsByModel(name) return
\* exactly the stored attempts with that website_id / model_used, newest
\* created_at first; and the files hold what the save calls wrote, whatever
\* was asked in between.
C29_ListingsCompleteAndOrdered ==
    /\ websitesFile.data = client.written.websites
    /\ attemptsFile.data = client.written.attempts
    /\ client.op = "getAllWebsites" =>
           /\ ExactlyThese(client.answer[1], StoredWebsites)
           /\ NewestFirst(client.answer[1], "scraped_at")
    /\ client.op = "getCloneAttemptsByWebsite" =>
           /\ ExactlyThese(client.answer[1],
                           {a \in StoredAttempts : a.website_id = client.id})
           /\ NewestFirst(client.answer[1], "created_at")
    /\ client.op = "getCloneAttemptsByModel" =>
           /\ ExactlyThese(client.answer[1],
                           {a \in StoredAttempts : a.model_used = client.model})
           /\ NewestFirst(client.answer[1], "created_at")

\* C29 witness: getCloneAttemptsByModel has returned two of three stored
\* attempts, the later one first.
C29_Witness ==
    /\ client.op = "getCloneAttemptsByModel"
    /\ Len(attemptsFile.data) = 3
    /\ Len(client.answer[1]) = 2
    /\ getTime(client.answer[1][1].created_at) > getTime(client.answer[1][2].created_at)

\* the numbers of this field never decrease / never increase along rows
Ascending(rows, field) ==
    \A i \in 1..(Len(rows) - 1) : LessOrEqual(rows[i][field], rows[i + 1][field])

Descending(rows, field) ==
    \A i \in 1..(Len(rows) - 1) : LessOrEqual(rows[i + 1][field], rows[i][field])

\* rows has one entry for each of the keys and no other entry
OnePerKey(rows, field, keys) ==
    {rows[i][field] : i \in 1..Len(rows)} = keys /\ Len(rows) = Cardinality(keys)

\* the call that returned last, with nothing written since, got from the
\* file-backed store a list as C30 says
FileAggregatesOrdered ==
    /\ ret.op = "getProviderComparison" =>
           /\ Descending(obs.file.value, "success_rate")
           /\ OnePerKey(obs.file.value, "provider", {a.provider : a \in StoredAttempts})
    /\ ret.op = "getModelPerformanceSummary" =>
           /\ Ascending(client.answer[1], "avg_generation_time")
           /\ OnePerKey(client.answer[1], "model_name",
                        {a.model_used : a \in StoredAttempts})

\* C30: getModelPerformanceSummary returns one entry per model that has a
\* stored attempt, mean duration ascending; getProviderComparison, of the
\* file-backed store and of DatabaseManager, returns one entry per provider
\* that has a stored attempt, success percentage descending.
C30_AggregatesOrdered ==
    /\ FileAggregatesOrdered
    /\ ret.op = "getProviderComparison" =>
           /\ obs.sql.error = "none"
           /\ Descending(obs.sql.value, "success_rate")
           /\ OnePerKey(obs.sql.value, "provider",
                        {a.provider : a \in Range(duck.attempts)})

\* text is the created_at of a stored attempt of this model, and no stored
\* attempt of the model was created later
IsLatestOf(text, modelId) ==
    /\ \E a \in StoredAttempts : a.model_used = modelId /\ a.created_at = text
    /\ \A a \in StoredAttempts :
           a.model_used = modelId => getTime(a.created_at) <= getTime(text)

\* C31: the last_used that getModelStats reports for a model, and the
\* last_used of each entry of getModelPerformanceSummary, is the latest
\* created_at among the stored attempts of that model.
C31_LastUsedIsTheLatest ==
    /\ (client.op = "getModelStats" /\ client.answer # <<>>) =>
           IsLatestOf(client.answer[1].last_used, client.model)
    /\ client.op = "getModelPerformanceSummary" =>
           \A i \in 1..Len(client.answer[1]) :
               IsLatestOf(client.answer[1][i].last_used, client.answer[1][i].model_name)

\* C31 witness: three attempts of one model are stored, the latest of them
\* neither first nor last, and both queries' case has happened: getModelStats
\* has answered for that model.
C31_Witness ==
    /\ client.op = "getModelStats"
    /\ client.answer # <<>>
    /\ Len(attemptsFile.data) = 3
    /\ \A i \in 1..3 : attemptsFile.data[i].model_used = client.model
    /\ getTime(attemptsFile.data[2].created_at) > getTime(attemptsFile.data[1].created_at)
    /\ getTime(attemptsFile.data[2].created_at) > getTime(attemptsFile.data[3].created_at)

\* rows are the min(10, total) most recently scraped of the stored records,
\* newest first
TenMostRecent(rows, stored) ==
    /\ Len(rows) = IF Len(stored) < 10 THEN Len(stored) ELSE 10
    /\ Range(rows) \subseteq Range(stored)
    /\ Cardinality(Range(rows)) = Len(rows)
    /\ NewestFirst(rows, "scraped_at")
    /\ \A w \in Range(stored) \ Range(rows) : \A r \in Range(rows) :
           getTime(w.scraped_at) <= getTime(r.scraped_at)

\* C32: the step in which GET ?action=stats or GET ?action=export responds
\* leaves both files as they are; a stats response carries the min(10, total)
\* most recently scraped Website records and totalWebsites = the number of
\* stored Website records; an export response carries both collections as
\* they are stored.
C32_StatsAndExportReport ==
    [][(req' # req /\ req'.pc = "responded") =>
          /\ UNCHANGED fileVars
          /\ req'.action = "stats" =>
                 /\ TenMostRecent(req'.websites, websitesFile.data)
                 /\ req'.totalWebsites = Len(websitesFile.data)
          /\ req'.action = "export" =>
                 req'.export = [websites |-> websitesFile.data,
                                attempts |-> attemptsFile.data]]_vars

\* C32 witness: a stats response over eleven stored websites, the first
\* stored older than the last: ten are returned, totalWebsites is 11.
C32_Witness ==
    /\ req.action = "stats" /\ req.pc = "responded"
    /\ Len(websitesFile.data) = 11
    /\ req.totalWebsites = 11
    /\ Len(req.websites) = 10
    /\ getTime(websitesFile.data[1].scraped_at) < getTime(websitesFile.data[11].scraped_at)

\* the syncToAnalytics call found attempts in the window: it has copied one,
\* or one is still to be copied
SyncReadAttempts ==
    \/ sync.attempts # <<>>
    \/ \E key \in sync.written : key[1] = "attempt"

\* every clone_attempts row of the analytical copy references a websites row
\* of the analytical copy
AnalyticalReferencesHold ==
    \A a \in Range(duck.attempts) : \E w \in Range(duck.websites) : w.id = a.website_id

TrackedAttemptStored(p) ==
    \E a \in StoredAttempts :
        /\ a.id = loc[p].attemptId
        /\ a.model_used = loc[p].modelUsed
        /\ a.status = loc[p].status
        /\ a.generation_time_ms = loc[p].generationTimeMs
        /\ \E w \in StoredWebsites : w.id = a.website_id /\ w.url = loc[p].url
        /\ a \in Range(getCloneAttemptsByModel(loc[p].modelUsed, FALSE))

\* C34: when trackWebsiteClone returns an identifier, the store holds the
\* CloneAttempt with that identifier, with the model, status and duration of
\* the call and a website_id whose Website has the url of the call, and
\* getCloneAttemptsByModel for that model includes it.
C34_TrackedAttemptIsStored ==
    [][\A p \in Procs :
           (pc[p] = "afterSaveAttempt" /\ pc'[p] = "idle") => TrackedAttemptStored(p)]_vars

\* q is a number from 0 to 100
IsPercentage(q) == q.den > 0 /\ 0 <= q.num /\ q.num <= 100 * q.den

\* C35: the total_attempts of the entries of getModelPerformanceSummary add
\* up to the number of stored attempts, and so do those of
\* getProviderComparison; every success_rate is from 0 to 100.
C35_AggregatesPartition ==
    /\ client.op \in {"getModelPerformanceSummary", "getProviderComparison"} =>
           /\ SumField(client.answer[1], "total_attempts") = Len(attemptsFile.data)
           /\ \A i \in 1..Len(client.answer[1]) :
                  IsPercentage(client.answer[1][i].success_rate)
    /\ SumField(getModelPerformanceSummary(FALSE), "total_attempts") =
           SumField(getProviderComparison(FALSE), "total_attempts")

\* C35 witness: getProviderComparison has answered over three stored attempts
\* of two models and two providers, one provider having attempts of both
\* models, with a success rate strictly between 0 and 100.
C35_Witness ==
    /\ client.op = "getProviderComparison"
    /\ Len(attemptsFile.data) = 3
    /\ Len(client.answer[1]) = 2
    /\ Len(getModelPerformanceSummary(FALSE)) = 2
    /\ \E i, j \in 1..3 :
           /\ attemptsFile.data[i].provider = attemptsFile.data[j].provider
           /\ attemptsFile.data[i].model_used # attemptsFile.data[j].model_used
    /\ \E i \in 1..2 : /\ client.answer[1][i].success_rate.num > 0
                       /\ client.answer[1][i].success_rate.num <
                              100 * client.answer[1][i].success_rate.den

\* C36: getSQLiteConnection() on a database file that was initialised before
\* (by itself, nothing else being called in the step) leaves the websites
\* and clone_attempts rows as they are.
C36_ReopeningAddsNoRows ==
    [][(/\ ~sqlite.open /\ sqlite'.open
        /\ sqlite.websites # <<>>
        /\ callCount' = callCount) =>
           /\ sqlite'.websites = sqlite.websites
           /\ sqlite'.attempts = sqlite.attempts]_vars

\* every statement of duckdb_schema.sql has been executed on d: the four
\* tables exist and the sample rows are in
SchemaExecuted(d) ==
    /\ {"websites", "clone_attempts", "code_files", "model_benchmarks"} \subseteq d.tables
    /\ \A i \in 1..Len(duckSampleWebsites) :
           \E w \in Range(d.websites) : w.id = duckSampleWebsites[i].id
    /\ d.attempts # <<>>

\* C37: when getDuckDBConnection returns a connection to a caller, every
\* statement of the schema has been executed on it, also when another call's
\* initializeDuckDB is still awaiting statements or has failed.
C37_ConnectionIsInitialised ==
    [][(/\ callCount'["run"] = callCount["run"] + 1
        /\ ret'.op = "getDuckDBConnection"
        /\ ret'.error = "none") => SchemaExecuted(duck')]_vars

====
